---- MODULE Spec2Model ----
(***************************************************************************)
(* Model of the geekfactory Shell library: the history-enabled shell of    *)
(* src/Shell.c (shell_register, shell_task, shell_parse,                   *)
(* shell_process_escape, shell_clear_command).                             *)
(*                                                                         *)
(* Characters are their ASCII codes, C arrays are functions from 0..K-1,   *)
(* a C string is the run of non-zero cells in front of the first 0 cell.   *)
(* One action models one whole call of shell_task for one received byte    *)
(* (one action per branch of its switch statements), or one call of        *)
(* shell_register / shell_unregister_all.                                  *)
(***************************************************************************)
EXTENDS Integers, Sequences, FiniteSets, TLC

(***************************************************************************)
(* Configuration macros of Shell.h, scaled down.                           *)
(***************************************************************************)
CONFIG_SHELL_COMMAND_HISTORY == 3
CONFIG_SHELL_MAX_INPUT == 3
CONFIG_SHELL_MAX_COMMANDS == 2
CONFIG_SHELL_MAX_COMMAND_ARGS == 4

\* Number of completed lines explored by the dispatch specification.
MaxLines == 1

\* Longest line handed to the tokenizer by the tokenizer specification.
MaxLineLen == 6

\* Longest template handed to the formatter by the formatter specification.
MaxFmtLen == 4

(***************************************************************************)
(* ASCII codes used by the shell.                                          *)
(***************************************************************************)
SHELL_ASCII_NUL == 0
SHELL_ASCII_BEL == 7
SHELL_ASCII_BS == 8
SHELL_ASCII_HT == 9
SHELL_ASCII_LF == 10
SHELL_ASCII_CR == 13
SHELL_ASCII_ESC == 27
SHELL_ASCII_SP == 32
SHELL_ASCII_DEL == 127
SHELL_VT100_ARROWUP == 65
SHELL_VT100_ARROWDOWN == 66
SHELL_VT100_CSI == 91
CHAR_QUOTE == 34
CHAR_BACKSLASH == 92
CHAR_a == 97
CHAR_ZERO == 48
CHAR_C == 67
CHAR_SOH == 1
CHAR_PERCENT == 37
CHAR_MINUS == 45
CHAR_TWO == 50
CHAR_THREE == 51
CHAR_NINE == 57
CHAR_A == 65
CHAR_F == 70
CHAR_X == 88
CHAR_c == 99
CHAR_d == 100
CHAR_f == 102
CHAR_h == 104
CHAR_i == 105
CHAR_q == 113
CHAR_s == 115
CHAR_u == 117
CHAR_x == 120

\* The byte classes of a control sequence (ESC [ ...).
IsParameter(c) == c >= 48 /\ c <= 63
IsIntermediate(c) == c >= 32 /\ c <= 47
IsFinal(c) == c >= 64 /\ c <= 126
IsPrintable(c) == c >= 32 /\ c < 127

Slots == 0 .. (CONFIG_SHELL_COMMAND_HISTORY - 1)
Cells == 0 .. (CONFIG_SHELL_MAX_INPUT - 1)
Entries == 0 .. (CONFIG_SHELL_MAX_COMMANDS - 1)

\* The null pointer, as a command string.
NullStr == << -1 >>

\* Names the host may register: the empty name and "a".
Names == { <<>>, <<CHAR_a>> }

\* Printable bytes typed in the history specification and in the dispatch
\* specification.
HistKeys == {CHAR_a}
DispKeys == {CHAR_a, SHELL_ASCII_SP}

\* Bytes typed in the argument specification (the characters the tokenizer
\* and the escape pass treat specially), and the names its commands are
\* registered under: a backslash, and a quote character.
ArgKeys == {SHELL_ASCII_SP, CHAR_QUOTE, CHAR_BACKSLASH}
\* Keys of the raw-text specification.
RawKeys == {CHAR_QUOTE, CHAR_BACKSLASH}

ArgNames == { <<CHAR_BACKSLASH>>, <<CHAR_QUOTE>> }

\* Characters of the lines of the tokenizer specification.
ParseChars == {CHAR_a, SHELL_ASCII_SP, CHAR_QUOTE, CHAR_BACKSLASH}

\* Bytes sent after ESC, and after ESC [.
EscBytes == {SHELL_VT100_CSI, CHAR_a, SHELL_ASCII_CR}
CsiBytes == {CHAR_ZERO, SHELL_ASCII_SP, SHELL_ASCII_CR, SHELL_ASCII_ESC,
             SHELL_ASCII_DEL, SHELL_VT100_ARROWUP, SHELL_VT100_ARROWDOWN, CHAR_C}

(***************************************************************************)
(* C string primitives on a char array.                                    *)
(***************************************************************************)
Min(S) == CHOOSE x \in S : \A y \in S : x <= y

ArrLen(a) == Cardinality(DOMAIN a)

\* strlen: the index of the first terminator (the array size when the array
\* holds none).
Strlen(a) ==
  LET z == {i \in DOMAIN a : a[i] = SHELL_ASCII_NUL}
  IN IF z = {} THEN ArrLen(a) ELSE Min(z)

\* The C string starting at cell `from`, as a sequence of codes.
CStrAt(a, from) ==
  LET z == {i \in DOMAIN a : i >= from /\ a[i] = SHELL_ASCII_NUL}
      e == IF z = {} THEN ArrLen(a) ELSE Min(z)
  IN [k \in 1 .. (IF e > from THEN e - from ELSE 0) |-> a[from + k - 1]]

CStr(a) == CStrAt(a, 0)

\* strcpy(dst, src): the characters of src and its terminator.
Strcpy(dst, src) ==
  [i \in DOMAIN dst |-> IF i <= Strlen(src) /\ i \in DOMAIN src THEN src[i] ELSE dst[i]]

\* A store to a cell (a store outside the array is not part of the array).
Wr(a, i, c) == IF i \in DOMAIN a THEN [a EXCEPT ![i] = c] ELSE a

\* The cells strcpy stores to: the characters of src and its terminator.
StrcpyCells(src) == 0 .. Strlen(src)

\* A load from a cell.
Rd(a, i) == IF i \in DOMAIN a THEN a[i] ELSE SHELL_ASCII_NUL

(***************************************************************************)
(* Output primitives: the bytes handed to shell_writer.                    *)
(***************************************************************************)
CRLF == <<SHELL_ASCII_CR, SHELL_ASCII_LF>>

ShellPutc(o, c) == Append(o, c)

ShellPrint(o, s) == o \o s

ShellPrintln(o, s) == o \o s \o CRLF

\* "Command NOT found."
NotFoundText ==
  <<67, 111, 109, 109, 97, 110, 100, 32, 78, 79, 84, 32, 102, 111, 117, 110, 100, 46>>

\* "device>"
PromptText == <<100, 101, 118, 105, 99, 101, 62>>

\* Mutant: the prompt is printed twice.
ShellPromptTwice(o) == ShellPrint(ShellPrint(o, PromptText), PromptText)

ShellPrompt(o) == ShellPrint(o, PromptText)

EraseSeq == <<SHELL_ASCII_BS, SHELL_ASCII_SP, SHELL_ASCII_BS>>

RECURSIVE Erase(_)
Erase(n) == IF n <= 0 THEN <<>> ELSE EraseSeq \o Erase(n - 1)

(***************************************************************************)
(* shell_parse: one scan of the line, inserting terminators and recording  *)
(* where each argument starts.  The result is the mutated buffer, the      *)
(* count returned, the argument vector (start cells, -1 where nothing was  *)
(* stored) and whether a pointer was stored at argv[maxargs], outside the  *)
(* vector.                                                                 *)
(***************************************************************************)
ParseStart(buf, maxargs) ==
  [buf |-> buf, argc |-> 0, toggle |-> 0, escape |-> FALSE, i |-> 0, oob |-> FALSE,
   argv |-> [k \in 0 .. (maxargs - 1) |-> IF k = 0 THEN 0 ELSE -1]]

\* argv[k] = &buf[at]
SetArg(s, k, at) ==
  IF k \in DOMAIN s.argv
  THEN [s EXCEPT !.argv = [@ EXCEPT ![k] = at]]
  ELSE [s EXCEPT !.oob = TRUE]

\* One iteration of the for loop: the switch on buf[i], escape = false, i++.
ParseChar(s, length) ==
  LET c == s.buf[s.i]
      i == s.i
  IN CASE c = SHELL_ASCII_NUL ->
            [s EXCEPT !.i = length + 1, !.argc = @ + 1, !.escape = FALSE]
       [] c = CHAR_BACKSLASH ->
            [s EXCEPT !.escape = TRUE, !.i = i + 1]
       [] c = CHAR_QUOTE ->
            IF ~s.escape
            THEN IF s.toggle = 0
                 THEN [SetArg(s, s.argc, i + 1) EXCEPT
                         !.toggle = 1, !.buf = Wr(s.buf, i, SHELL_ASCII_NUL),
                         !.escape = FALSE, !.i = i + 1]
                 ELSE [s EXCEPT
                         !.toggle = 0, !.buf = Wr(s.buf, i, SHELL_ASCII_NUL),
                         !.escape = FALSE, !.i = i + 1]
            ELSE [s EXCEPT !.escape = FALSE, !.i = i + 1]
       [] c = SHELL_ASCII_SP ->
            IF s.toggle = 0
            THEN [SetArg(s, s.argc + 1, i + 1) EXCEPT
                    !.buf = Wr(s.buf, i, SHELL_ASCII_NUL), !.argc = s.argc + 1,
                    !.escape = FALSE, !.i = i + 1]
            ELSE [s EXCEPT !.escape = FALSE, !.i = i + 1]
       [] OTHER ->
            [s EXCEPT !.escape = FALSE, !.i = i + 1]

RECURSIVE ParseLoop(_, _, _)
ParseLoop(s, length, maxargs) ==
  IF s.i < length /\ s.argc < maxargs /\ s.i \in DOMAIN s.buf
  THEN ParseLoop(ParseChar(s, length), length, maxargs)
  ELSE s

\* Mutant: the scan stops in front of the terminator (length = strlen).
ParseWithoutTerminator(buf, maxargs) ==
  ParseLoop(ParseStart(buf, maxargs), Strlen(buf), maxargs)

\* Mutant: an empty line is returned at once, with no argument counted.
ParseSkipsEmptyLine(buf, maxargs) ==
  IF Strlen(buf) = 0
  THEN ParseStart(buf, maxargs)
  ELSE ParseLoop(ParseStart(buf, maxargs), Strlen(buf) + 1, maxargs)

shell_parse(buf, maxargs) ==
  ParseLoop(ParseStart(buf, maxargs), Strlen(buf) + 1, maxargs)

(***************************************************************************)
(* shell_process_escape: in every argument, collapse backslash-quote to a  *)
(* quote by copying the rest of the argument one cell to the left.         *)
(***************************************************************************)
RECURSIVE EscapeArg(_, _, _, _, _)
EscapeArg(buf, base, sl, j, readindex) ==
  IF j >= sl
  THEN buf
  ELSE LET hit == /\ Rd(buf, base + j + readindex) = CHAR_BACKSLASH
                  /\ Rd(buf, base + j + readindex + 1) = CHAR_QUOTE
           b1 == IF hit THEN Wr(buf, base + j, CHAR_QUOTE) ELSE buf
           r1 == IF hit THEN readindex + 1 ELSE readindex
           b2 == IF r1 # 0 THEN Wr(b1, base + j, Rd(b1, base + j + r1)) ELSE b1
       IN EscapeArg(b2, base, sl, j + 1, r1)

\* Mutant: only one argument is de-escaped, the loop over the arguments is
\* missing.
EscapeOneArg(buf, argc, argv, i) ==
  IF i >= argc
  THEN buf
  ELSE EscapeArg(buf, argv[i], Len(CStrAt(buf, argv[i])), 0, 0)

RECURSIVE EscapeArgs(_, _, _, _)
EscapeArgs(buf, argc, argv, i) ==
  IF i >= argc
  THEN buf
  ELSE EscapeArgs(EscapeArg(buf, argv[i], Len(CStrAt(buf, argv[i])), 0, 0),
                  argc, argv, i + 1)

\* Mutant: the escape pass is skipped.
EscapesKept(buf, argc, argv) == buf

shell_process_escape(buf, argc, argv) == EscapeArgs(buf, argc, argv, 0)

\* The loads of the escape pass over one argument: the cells it reads, and
\* the cells of the argument that receive a byte loaded from behind the
\* array.  A load from behind the array yields an unknown byte; once the
\* read position j + readindex is behind the array it stays there, so what
\* the unknown bytes are decides the bytes copied, not the cells loaded
\* up to the first of them.
RECURSIVE EscapeArgLoads(_, _, _, _, _)
EscapeArgLoads(buf, base, sl, j, readindex) ==
  IF j >= sl
  THEN [reads |-> {}, unknown |-> {}]
  ELSE LET first == base + j + readindex
           hit == /\ Rd(buf, first) = CHAR_BACKSLASH
                  /\ Rd(buf, first + 1) = CHAR_QUOTE
           b1 == IF hit THEN Wr(buf, base + j, CHAR_QUOTE) ELSE buf
           r1 == IF hit THEN readindex + 1 ELSE readindex
           b2 == IF r1 # 0 THEN Wr(b1, base + j, Rd(b1, base + j + r1)) ELSE b1
           rest == EscapeArgLoads(b2, base, sl, j + 1, r1)
       IN [reads |-> {first}
                       \cup (IF Rd(buf, first) = CHAR_BACKSLASH THEN {first + 1} ELSE {})
                       \cup (IF r1 # 0 THEN {base + j + r1} ELSE {})
                       \cup rest.reads,
           unknown |-> (IF r1 # 0 /\ (base + j + r1) \notin DOMAIN buf
                        THEN {base + j}
                        ELSE {})
                       \cup rest.unknown]

\* The loads of the pass, argument by argument.
RECURSIVE EscapeLoads(_, _, _, _)
EscapeLoads(buf, argc, argv, i) ==
  IF i >= argc
  THEN <<>>
  ELSE <<EscapeArgLoads(buf, argv[i], Len(CStrAt(buf, argv[i])), 0, 0)>>
       \o EscapeLoads(EscapeArg(buf, argv[i], Len(CStrAt(buf, argv[i])), 0, 0),
                      argc, argv, i + 1)

\* Bytes that may lie behind the buffer.
BehindBytes == {SHELL_ASCII_NUL, CHAR_a, CHAR_BACKSLASH, CHAR_QUOTE}

\* The buffers the pass can leave: the cells that received a byte loaded from
\* behind the array hold any byte.
EscapeOutcomes(buf, argc, argv) ==
  LET done == shell_process_escape(buf, argc, argv)
      loads == EscapeLoads(buf, argc, argv, 0)
      unknown == UNION {loads[k].unknown : k \in 1 .. Len(loads)}
  IN {[c \in DOMAIN done |-> IF c \in unknown THEN f[c] ELSE done[c]] :
        f \in [unknown -> BehindBytes]}

\* The argument strings a handler sees: argv[0] .. argv[argc - 1].
ArgStrings(buf, argc, argv) == [k \in 1 .. argc |-> CStrAt(buf, argv[k - 1])]

(***************************************************************************)
(* The sequential search of the command table: every entry with a handler  *)
(* whose name compares equal to argv[0] is run, in table order.            *)
(***************************************************************************)
EntryMatches(e, arg0) == e.shell_program # 0 /\ e.shell_command_string = arg0

RECURSIVE Dispatch(_, _, _, _, _)
Dispatch(tbl, i, args, at, acc) ==
  IF i >= CONFIG_SHELL_MAX_COMMANDS
  THEN acc
  ELSE Dispatch(tbl, i + 1, args, at,
                IF EntryMatches(tbl[i], args[1])
                THEN Append(acc, [entry |-> i, program |-> tbl[i].shell_program,
                                  argc |-> Len(args), argv |-> args, at |-> at])
                ELSE acc)

(***************************************************************************)
(* shell_clear_command: erase the displayed text and zero the first count  *)
(* cells of the current slot.                                              *)
(***************************************************************************)
ClearedSlot(a, n) == [i \in DOMAIN a |-> IF i < n THEN SHELL_ASCII_NUL ELSE a[i]]

\* The cells shell_clear_command stores to.
ClearedCells(n) == 0 .. (n - 1)

\* Mutant: the step to the previous slot does not wrap.
RingPrevNoWrap(i) == IF i = 0 THEN 0 ELSE i - 1

\* Ring index arithmetic.
RingPrev(i) == IF i = 0 THEN CONFIG_SHELL_COMMAND_HISTORY - 1 ELSE i - 1

\* Mutant: the step to the next slot stops at the last slot.
RingNextNoWrap(i) == IF i = CONFIG_SHELL_COMMAND_HISTORY - 1 THEN i ELSE i + 1

RingNext(i) == IF i = CONFIG_SHELL_COMMAND_HISTORY - 1 THEN 0 ELSE i + 1

(***************************************************************************)
(* State.                                                                  *)
(***************************************************************************)
VARIABLES
  initialized,    \* shell_init has succeeded
  list,           \* the command table: [shell_program, shell_command_string]
  shellbuf,       \* the history ring: one char array per slot
  scratchpad,     \* the scratch buffer
  currentBuf,     \* slot of the line being typed
  historyBuf,     \* slot last recalled from the history
  oldestBuf,      \* slot of the oldest entry
  bufferWrapped,  \* the ring has wrapped
  count,          \* characters in the line being typed
  escapeMode,     \* static flag of shell_task: ESC was received
  csiMode,        \* static flag of shell_task: ESC [ was received
  out,            \* bytes written by the latest call of shell_task
  calls,          \* handlers run by the latest call of shell_task, in order
  stores,         \* cell indices the latest call of shell_task stored to
  regRet,         \* value returned by the latest shell_register (-1: none yet)
  last,           \* history: the latest call and its input
  nav,            \* history: the line state when arrow-up left the newest slot
  committed,      \* history: the lines appended to the ring, oldest first
  ups,            \* history: arrow-ups since the prompt was printed (-1: other keys came)
  nlines,         \* history: lines completed (counted by the dispatch specification)
  pbuf,           \* tokenizer run: the buffer handed to shell_parse
  pmax,           \* tokenizer run: maxargs
  pres,           \* tokenizer run: the stage reached and the result
  ffmt,           \* formatter run: the template handed to shell_format
  fargs,          \* formatter run: the variadic arguments
  fres            \* formatter run: the stage reached and the result

progVars == <<list, shellbuf, scratchpad, currentBuf, historyBuf, oldestBuf,
              bufferWrapped, count, escapeMode, csiMode>>
lineVars == <<shellbuf, scratchpad, currentBuf, historyBuf, oldestBuf,
              bufferWrapped, count>>
parseVars == <<pbuf, pmax, pres>>
fmtVars == <<ffmt, fargs, fres>>
vars == <<initialized, list, shellbuf, scratchpad, currentBuf, historyBuf, oldestBuf,
          bufferWrapped, count, escapeMode, csiMode, out, calls, stores,
          regRet, last, nav, committed, ups, nlines, pbuf, pmax, pres, ffmt, fargs, fres>>

EmptyEntry == [shell_program |-> 0, shell_command_string |-> NullStr]

\* The characters on the terminal line: the first count cells of the current slot.
Visible == [k \in 1 .. count |-> shellbuf[currentBuf][k - 1]]

NoNav == [phase |-> "none", text |-> <<>>, count |-> 0, hist |-> 0]

NoParse == [stage |-> "none"]

(***************************************************************************)
(* History variables: what the user did, recorded beside the program.      *)
(***************************************************************************)
\* What a received byte means to the user, given the mode it arrives in.
KeyOf(rxchar) ==
  IF escapeMode
  THEN IF csiMode
       THEN IF rxchar = SHELL_VT100_ARROWUP THEN "up"
            ELSE IF rxchar = SHELL_VT100_ARROWDOWN THEN "down"
            ELSE "other"
       ELSE IF rxchar = SHELL_VT100_CSI THEN "keep" ELSE "other"
  ELSE IF rxchar = SHELL_ASCII_ESC THEN "keep"
       ELSE IF rxchar = SHELL_ASCII_CR THEN "cr"
       ELSE "other"

NavNext(key) ==
  CASE key = "keep" -> nav
    [] key = "up" ->
         IF historyBuf = currentBuf /\ historyBuf # oldestBuf
         THEN [phase |-> "up", text |-> Visible, count |-> count, hist |-> historyBuf]
         ELSE NoNav
    [] key = "down" ->
         IF nav.phase = "up" THEN [nav EXCEPT !.phase = "down"] ELSE NoNav
    [] OTHER -> NoNav

UpsNext(key) ==
  CASE key = "keep" -> ups
    [] key = "up" ->
         IF ups < 0 THEN -1
         ELSE IF ups < CONFIG_SHELL_COMMAND_HISTORY THEN ups + 1 ELSE ups
    [] key = "cr" -> 0
    [] OTHER -> -1

LastOnes(s, n) == IF Len(s) <= n THEN s ELSE SubSeq(s, Len(s) - n + 1, Len(s))

\* The lines a user expects in the history after submitting `line`.
CommittedNext(line) ==
  IF line # <<>> /\ (committed = <<>> \/ line # committed[Len(committed)])
  THEN LastOnes(Append(committed, line), CONFIG_SHELL_COMMAND_HISTORY - 1)
  ELSE committed

\* A call of shell_task on the initialised shell whose one call of the read
\* callback delivered rxchar, and its record.
Received(rxchar) ==
  /\ initialized
  /\ last' = [op |-> "task", reads |-> 1, rx |-> rxchar, esc |-> escapeMode,
              csi |-> csiMode]
  /\ nav' = NavNext(KeyOf(rxchar))
  /\ ups' = UpsNext(KeyOf(rxchar))
  /\ committed' = IF KeyOf(rxchar) = "cr" THEN CommittedNext(Visible) ELSE committed
  /\ UNCHANGED <<initialized, regRet, pbuf, pmax, pres, fmtVars>>

(***************************************************************************)
(* Initial state: shell_init on zeroed globals.                            *)
(***************************************************************************)
InitShell ==
  /\ shellbuf = [s \in Slots |-> [i \in Cells |-> SHELL_ASCII_NUL]]
  /\ scratchpad = [i \in Cells |-> SHELL_ASCII_NUL]
  /\ currentBuf = 0
  /\ historyBuf = 0
  /\ oldestBuf = 0
  /\ bufferWrapped = FALSE
  /\ count = 0
  /\ escapeMode = FALSE
  /\ csiMode = FALSE
  /\ out = <<>>
  /\ calls = <<>>
  /\ stores = {}
  /\ regRet = -1
  /\ last = [op |-> "init", ret |-> TRUE]
  /\ initialized = TRUE
  /\ nav = NoNav
  /\ committed = <<>>
  /\ ups = 0
  /\ nlines = 0

NoFormat == [stage |-> "none"]

InitNoFormat ==
  /\ ffmt = <<>>
  /\ fargs = <<>>
  /\ fres = NoFormat

InitNoParse ==
  /\ pbuf = <<>>
  /\ pmax = 0
  /\ pres = NoParse

(***************************************************************************)
(* shell_register and shell_unregister_all.                                *)
(***************************************************************************)
EntryUsed(e) == e.shell_program # 0 \/ e.shell_command_string # NullStr

\* Mutant: the search for an empty slot runs from the end of the table.
LastFreeEntry(tbl) ==
  LET free == {i \in Entries : ~EntryUsed(tbl[i])}
  IN IF free = {} THEN -1 ELSE CHOOSE x \in free : \A y \in free : y <= x

\* The slot the for loop of shell_register stops at (-1: it runs to the end).
FreeEntry(tbl) ==
  LET free == {i \in Entries : ~EntryUsed(tbl[i])}
  IN IF free = {} THEN -1 ELSE Min(free)

ShellRegister(program, string) ==
  /\ IF FreeEntry(list) >= 0
     THEN /\ list' = [list EXCEPT ![FreeEntry(list)] =
                        [shell_program |-> program, shell_command_string |-> string]]
          /\ regRet' = 1
     ELSE /\ list' = list
          /\ regRet' = 0
  /\ last' = [op |-> "register", program |-> program, string |-> string]
  /\ UNCHANGED <<initialized, lineVars, escapeMode, csiMode, out, calls, stores, nav, committed, ups,
                 nlines, pbuf, pmax, pres, fmtVars>>

\* The host registers a different handler with every call: handler k + 1 when
\* k entries are in use.
NextProgram == 1 + Cardinality({i \in Entries : EntryUsed(list[i])})

Register == \E string \in Names : ShellRegister(NextProgram, string)

UnregisterAll ==
  /\ list' = [i \in Entries |-> EmptyEntry]
  /\ last' = [op |-> "unregister"]
  /\ UNCHANGED <<initialized, lineVars, escapeMode, csiMode, out, calls, stores, regRet, nav, committed,
                 ups, nlines, pbuf, pmax, pres, fmtVars>>

(***************************************************************************)
(* shell_task: no byte available (the read callback, called once, returns  *)
(* false), and shell_task before shell_init (it returns before the read    *)
(* callback is called).  Buffered output is not enabled (obhandle is 0).   *)
(***************************************************************************)
\* Mutant: the idle call rings the bell.
TaskIdleBeeps ==
  /\ initialized
  /\ out' = ShellPutc(<<>>, SHELL_ASCII_BEL)
  /\ calls' = <<>>
  /\ stores' = {}
  /\ last' = [op |-> "idle", reads |-> 1]
  /\ UNCHANGED <<initialized, progVars, regRet, nav, committed, ups, nlines, pbuf,
                 pmax, pres, fmtVars>>

TaskIdle ==
  /\ initialized
  /\ out' = <<>>
  /\ calls' = <<>>
  /\ stores' = {}
  /\ last' = [op |-> "idle", reads |-> 1]
  /\ UNCHANGED <<initialized, progVars, regRet, nav, committed, ups, nlines, pbuf,
                 pmax, pres, fmtVars>>

TaskNotInitialized ==
  /\ ~initialized
  /\ out' = <<>>
  /\ calls' = <<>>
  /\ stores' = {}
  /\ last' = [op |-> "idle", reads |-> 0]
  /\ UNCHANGED <<initialized, progVars, regRet, nav, committed, ups, nlines, pbuf,
                 pmax, pres, fmtVars>>

(***************************************************************************)
(* shell_task: a byte received outside an escape sequence.                 *)
(***************************************************************************)
RecvEsc ==
  /\ ~escapeMode
  /\ escapeMode' = TRUE
  /\ out' = <<>>
  /\ calls' = <<>>
  /\ stores' = {}
  /\ UNCHANGED <<list, lineVars, csiMode, nlines>>
  /\ Received(SHELL_ASCII_ESC)

RecvHT ==
  /\ ~escapeMode
  /\ out' = ShellPutc(<<>>, SHELL_ASCII_BEL)
  /\ calls' = <<>>
  /\ stores' = {}
  /\ UNCHANGED <<progVars, nlines>>
  /\ Received(SHELL_ASCII_HT)

\* The backspace case, for the byte rxchar that selected it.
Backspace(rxchar) ==
  /\ ~escapeMode
  /\ IF count > 0
     THEN /\ shellbuf' = [shellbuf EXCEPT ![currentBuf] = Wr(@, count, SHELL_ASCII_NUL)]
          /\ count' = count - 1
          /\ out' = EraseSeq
          /\ stores' = {count}
     ELSE /\ out' = ShellPutc(<<>>, SHELL_ASCII_BEL)
          /\ stores' = {}
          /\ UNCHANGED <<shellbuf, count>>
  /\ calls' = <<>>
  /\ UNCHANGED <<list, scratchpad, currentBuf, historyBuf, oldestBuf, bufferWrapped,
                 escapeMode, csiMode, nlines>>
  /\ Received(rxchar)

RecvBS == Backspace(SHELL_ASCII_BS)

\* Mutant: delete handled as a second backspace key.
RecvDel_Erases == Backspace(SHELL_ASCII_DEL)

RecvDel ==
  /\ ~escapeMode
  /\ out' = ShellPutc(<<>>, SHELL_ASCII_BEL)
  /\ calls' = <<>>
  /\ stores' = {}
  /\ UNCHANGED <<progVars, nlines>>
  /\ Received(SHELL_ASCII_DEL)

\* Mutant: a printable character is stored whatever the count is.
ShellDefaultNoLimit(rxchar) ==
  /\ ~escapeMode
  /\ IF rxchar >= 32 /\ rxchar < 127
     THEN /\ shellbuf' = [shellbuf EXCEPT ![currentBuf] =
                Wr(Wr(@, count, rxchar), count + 1, SHELL_ASCII_NUL)]
          /\ out' = ShellPutc(<<>>, rxchar)
          /\ count' = count + 1
          /\ stores' = {count, count + 1}
     ELSE /\ out' = <<>>
          /\ stores' = {}
          /\ UNCHANGED <<shellbuf, count>>
  /\ calls' = <<>>
  /\ UNCHANGED <<list, scratchpad, currentBuf, historyBuf, oldestBuf, bufferWrapped,
                 escapeMode, csiMode, nlines>>
  /\ Received(rxchar)

\* The default case of the switch, for byte rxchar.
ShellDefault(rxchar) ==
  /\ ~escapeMode
  /\ IF count < CONFIG_SHELL_MAX_INPUT - 1 /\ rxchar >= 32 /\ rxchar < 127
     THEN /\ shellbuf' = [shellbuf EXCEPT ![currentBuf] =
                IF count < CONFIG_SHELL_MAX_INPUT - 2
                THEN Wr(Wr(@, count, rxchar), count + 1, SHELL_ASCII_NUL)
                ELSE Wr(@, count, rxchar)]
          /\ out' = ShellPutc(<<>>, rxchar)
          /\ count' = count + 1
          /\ stores' = IF count < CONFIG_SHELL_MAX_INPUT - 2
                       THEN {count, count + 1}
                       ELSE {count}
     ELSE /\ out' = <<>>
          /\ stores' = {}
          /\ UNCHANGED <<shellbuf, count>>
  /\ calls' = <<>>
  /\ UNCHANGED <<list, scratchpad, currentBuf, historyBuf, oldestBuf, bufferWrapped,
                 escapeMode, csiMode, nlines>>
  /\ Received(rxchar)

(***************************************************************************)
(* shell_task: carriage return.  The line is terminated, copied to the     *)
(* scratch buffer, tokenized, de-escaped and dispatched; then it is        *)
(* committed to the history and the prompt is printed.                     *)
(***************************************************************************)
\* Mutant: every non-empty line is committed.
CommitAnyLine(sb, cur, oldest, cnt) == cnt # 0

\* The test guarding the increment of the ring indices.
CommitNeeded(sb, cur, oldest, cnt) ==
  /\ cnt # 0
  /\ \/ cur = oldest
     \/ CStr(sb[cur]) # CStr(sb[RingPrev(cur)])

\* Mutant: the message is printed for every non-empty line.
NotFoundOnAnyLine(cc, cnt) == cnt # 0

\* The test guarding the "Command NOT found." message.
NotFoundNeeded(cc, cnt) == cc /\ cnt # 0

\* Each intermediate value (the terminated slot, the scratch buffer, the
\* tokenizer result, the arguments, the handlers run) is bound once.
\* Mutant: historyBuf is left where the navigation put it.
CompleteLineKeepsHistoryBuf ==
  \E sb0 \in {[shellbuf EXCEPT ![currentBuf] = Wr(@, count, SHELL_ASCII_NUL)]} :
  \E sp0 \in {Strcpy(scratchpad, sb0[currentBuf])} :
  \E p \in {shell_parse(sp0, CONFIG_SHELL_MAX_COMMAND_ARGS)} :
  \E sp1 \in {shell_process_escape(p.buf, p.argc, p.argv)} :
  \E args \in {ArgStrings(sp1, p.argc, p.argv)} :
  \E run \in {Dispatch(list, 0, args, Len(ShellPrintln(<<>>, <<>>)), <<>>)} :
  LET o0 == ShellPrintln(<<>>, <<>>)
      o1 == IF NotFoundNeeded(run = <<>>, count)
            THEN ShellPrintln(o0, NotFoundText)
            ELSE o0
      commit == CommitNeeded(sb0, currentBuf, oldestBuf, count)
      cur1 == IF commit THEN RingNext(currentBuf) ELSE currentBuf
      wrapped1 == IF commit /\ currentBuf = CONFIG_SHELL_COMMAND_HISTORY - 1
                  THEN TRUE
                  ELSE bufferWrapped
      oldest1 == IF commit /\ wrapped1 THEN RingNext(oldestBuf) ELSE oldestBuf
  IN /\ shellbuf' = sb0
     /\ scratchpad' = sp1
     /\ calls' = run
     /\ stores' = {count} \cup StrcpyCells(sb0[currentBuf])
     /\ currentBuf' = cur1
     /\ bufferWrapped' = wrapped1
     /\ oldestBuf' = oldest1
     /\ historyBuf' = historyBuf
     /\ count' = 0
     /\ out' = ShellPrompt(ShellPrintln(o1, <<>>))
     /\ UNCHANGED <<list, escapeMode, csiMode>>
     /\ Received(SHELL_ASCII_CR)

\* Mutant: the line is tokenized in its slot (the copy is written back).
CompleteLineParsesInPlace ==
  \E sb0 \in {[shellbuf EXCEPT ![currentBuf] = Wr(@, count, SHELL_ASCII_NUL)]} :
  \E sp0 \in {Strcpy(scratchpad, sb0[currentBuf])} :
  \E p \in {shell_parse(sp0, CONFIG_SHELL_MAX_COMMAND_ARGS)} :
  \E sp1 \in {shell_process_escape(p.buf, p.argc, p.argv)} :
  \E args \in {ArgStrings(sp1, p.argc, p.argv)} :
  \E run \in {Dispatch(list, 0, args, Len(ShellPrintln(<<>>, <<>>)), <<>>)} :
  LET o0 == ShellPrintln(<<>>, <<>>)
      o1 == IF NotFoundNeeded(run = <<>>, count)
            THEN ShellPrintln(o0, NotFoundText)
            ELSE o0
      commit == CommitNeeded(sb0, currentBuf, oldestBuf, count)
      cur1 == IF commit THEN RingNext(currentBuf) ELSE currentBuf
      wrapped1 == IF commit /\ currentBuf = CONFIG_SHELL_COMMAND_HISTORY - 1
                  THEN TRUE
                  ELSE bufferWrapped
      oldest1 == IF commit /\ wrapped1 THEN RingNext(oldestBuf) ELSE oldestBuf
  IN /\ shellbuf' = [sb0 EXCEPT ![currentBuf] = sp1]
     /\ scratchpad' = sp1
     /\ calls' = run
     /\ stores' = {count} \cup StrcpyCells(sb0[currentBuf])
     /\ currentBuf' = cur1
     /\ bufferWrapped' = wrapped1
     /\ oldestBuf' = oldest1
     /\ historyBuf' = cur1
     /\ count' = 0
     /\ out' = ShellPrompt(ShellPrintln(o1, <<>>))
     /\ UNCHANGED <<list, escapeMode, csiMode>>
     /\ Received(SHELL_ASCII_CR)

CompleteLine ==
  \E sb0 \in {[shellbuf EXCEPT ![currentBuf] = Wr(@, count, SHELL_ASCII_NUL)]} :
  \E sp0 \in {Strcpy(scratchpad, sb0[currentBuf])} :
  \E p \in {shell_parse(sp0, CONFIG_SHELL_MAX_COMMAND_ARGS)} :
  \E sp1 \in {shell_process_escape(p.buf, p.argc, p.argv)} :
  \E args \in {ArgStrings(sp1, p.argc, p.argv)} :
  \E run \in {Dispatch(list, 0, args, Len(ShellPrintln(<<>>, <<>>)), <<>>)} :
  LET o0 == ShellPrintln(<<>>, <<>>)
      o1 == IF NotFoundNeeded(run = <<>>, count)
            THEN ShellPrintln(o0, NotFoundText)
            ELSE o0
      commit == CommitNeeded(sb0, currentBuf, oldestBuf, count)
      cur1 == IF commit THEN RingNext(currentBuf) ELSE currentBuf
      wrapped1 == IF commit /\ currentBuf = CONFIG_SHELL_COMMAND_HISTORY - 1
                  THEN TRUE
                  ELSE bufferWrapped
      oldest1 == IF commit /\ wrapped1 THEN RingNext(oldestBuf) ELSE oldestBuf
  IN /\ shellbuf' = sb0
     /\ scratchpad' = sp1
     /\ calls' = run
     /\ stores' = {count} \cup StrcpyCells(sb0[currentBuf])
     /\ currentBuf' = cur1
     /\ bufferWrapped' = wrapped1
     /\ oldestBuf' = oldest1
     /\ historyBuf' = cur1
     /\ count' = 0
     /\ out' = ShellPrompt(ShellPrintln(o1, <<>>))
     /\ UNCHANGED <<list, escapeMode, csiMode>>
     /\ Received(SHELL_ASCII_CR)

RecvCR ==
  /\ ~escapeMode
  /\ CompleteLine
  /\ UNCHANGED nlines

(***************************************************************************)
(* shell_task: a byte received after ESC.                                  *)
(***************************************************************************)
EscIntroducer ==
  /\ escapeMode /\ ~csiMode
  /\ csiMode' = TRUE
  /\ out' = <<>>
  /\ calls' = <<>>
  /\ stores' = {}
  /\ UNCHANGED <<list, lineVars, escapeMode, nlines>>
  /\ Received(SHELL_VT100_CSI)

\* Any byte but '[': the sequence is abandoned.
EscAbort ==
  /\ escapeMode /\ ~csiMode
  /\ \E rxchar \in EscBytes :
       /\ rxchar # SHELL_VT100_CSI
       /\ Received(rxchar)
  /\ escapeMode' = FALSE
  /\ out' = <<>>
  /\ calls' = <<>>
  /\ stores' = {}
  /\ UNCHANGED <<list, lineVars, csiMode, nlines>>

(***************************************************************************)
(* shell_task: a byte received after ESC [.                                *)
(***************************************************************************)
\* Mutant: a byte outside 0x20-0x7E ends the control sequence.
CsiControlByteLeaves ==
  /\ escapeMode /\ csiMode
  /\ \E rxchar \in CsiBytes :
       /\ IsParameter(rxchar) \/ IsIntermediate(rxchar) \/ ~IsFinal(rxchar)
       /\ Received(rxchar)
       /\ IF IsParameter(rxchar) \/ IsIntermediate(rxchar)
          THEN UNCHANGED <<escapeMode, csiMode>>
          ELSE csiMode' = FALSE /\ escapeMode' = FALSE
  /\ out' = <<>>
  /\ calls' = <<>>
  /\ stores' = {}
  /\ UNCHANGED <<list, lineVars, nlines>>

\* Parameter bytes 0x30-0x3F, intermediate bytes 0x20-0x2F, and the bytes
\* outside 0x20-0x7E that no branch handles: nothing changes.
CsiIgnored ==
  /\ escapeMode /\ csiMode
  /\ \E rxchar \in CsiBytes :
       /\ IsParameter(rxchar) \/ IsIntermediate(rxchar) \/ ~IsFinal(rxchar)
       /\ Received(rxchar)
  /\ out' = <<>>
  /\ calls' = <<>>
  /\ stores' = {}
  /\ UNCHANGED <<progVars, nlines>>

CsiArrowUp ==
  /\ escapeMode /\ csiMode
  /\ IF historyBuf # oldestBuf
     THEN LET sp1 == IF historyBuf = currentBuf
                     THEN IF count > 0
                          THEN Strcpy(scratchpad, shellbuf[currentBuf])
                          ELSE Wr(scratchpad, 0, SHELL_ASCII_NUL)
                     ELSE scratchpad
              sb1 == [shellbuf EXCEPT ![currentBuf] = ClearedSlot(@, count)]
              h1 == RingPrev(historyBuf)
              sb2 == [sb1 EXCEPT ![currentBuf] = Strcpy(@, sb1[h1])]
          IN /\ scratchpad' = sp1
             /\ historyBuf' = h1
             /\ shellbuf' = sb2
             /\ count' = Strlen(sb2[currentBuf])
             /\ out' = ShellPrint(Erase(count), CStr(sb1[h1]))
             /\ stores' = (IF historyBuf = currentBuf
                           THEN IF count > 0
                                THEN StrcpyCells(shellbuf[currentBuf])
                                ELSE {0}
                           ELSE {})
                          \cup ClearedCells(count) \cup StrcpyCells(sb1[h1])
     ELSE /\ out' = ShellPutc(<<>>, SHELL_ASCII_BEL)
          /\ stores' = {}
          /\ UNCHANGED <<scratchpad, historyBuf, shellbuf, count>>
  /\ csiMode' = FALSE
  /\ escapeMode' = FALSE
  /\ calls' = <<>>
  /\ UNCHANGED <<list, currentBuf, oldestBuf, bufferWrapped, nlines>>
  /\ Received(SHELL_VT100_ARROWUP)

CsiArrowDown ==
  /\ escapeMode /\ csiMode
  /\ IF historyBuf # currentBuf
     THEN LET sb1 == [shellbuf EXCEPT ![currentBuf] = ClearedSlot(@, count)]
              h1 == RingNext(historyBuf)
              restore == h1 = currentBuf
              sb2 == IF restore
                     THEN IF Strlen(scratchpad) > 0
                          THEN [sb1 EXCEPT ![currentBuf] = Strcpy(@, scratchpad)]
                          ELSE sb1
                     ELSE [sb1 EXCEPT ![currentBuf] = Strcpy(@, sb1[h1])]
              shown == IF restore THEN CStr(scratchpad) ELSE CStr(sb1[h1])
          IN /\ historyBuf' = h1
             /\ shellbuf' = sb2
             /\ count' = Strlen(sb2[currentBuf])
             /\ out' = ShellPrint(Erase(count), shown)
             /\ stores' = ClearedCells(count) \cup
                          (IF restore
                           THEN IF Strlen(scratchpad) > 0
                                THEN StrcpyCells(scratchpad)
                                ELSE {}
                           ELSE StrcpyCells(sb1[h1]))
     ELSE /\ out' = ShellPutc(<<>>, SHELL_ASCII_BEL)
          /\ stores' = {}
          /\ UNCHANGED <<historyBuf, shellbuf, count>>
  /\ csiMode' = FALSE
  /\ escapeMode' = FALSE
  /\ calls' = <<>>
  /\ UNCHANGED <<list, scratchpad, currentBuf, oldestBuf, bufferWrapped, nlines>>
  /\ Received(SHELL_VT100_ARROWDOWN)

\* Mutant: a final byte that selects no action leaves the sequence open.
CsiOtherFinalStays ==
  /\ escapeMode /\ csiMode
  /\ \E rxchar \in CsiBytes :
       /\ ~IsParameter(rxchar) /\ ~IsIntermediate(rxchar) /\ IsFinal(rxchar)
       /\ rxchar # SHELL_VT100_ARROWUP /\ rxchar # SHELL_VT100_ARROWDOWN
       /\ Received(rxchar)
  /\ out' = <<>>
  /\ calls' = <<>>
  /\ stores' = {}
  /\ UNCHANGED <<progVars, nlines>>

\* A final byte 0x40-0x7E other than 'A' and 'B'.
CsiOtherFinal ==
  /\ escapeMode /\ csiMode
  /\ \E rxchar \in CsiBytes :
       /\ ~IsParameter(rxchar) /\ ~IsIntermediate(rxchar) /\ IsFinal(rxchar)
       /\ rxchar # SHELL_VT100_ARROWUP /\ rxchar # SHELL_VT100_ARROWDOWN
       /\ Received(rxchar)
  /\ csiMode' = FALSE
  /\ escapeMode' = FALSE
  /\ out' = <<>>
  /\ calls' = <<>>
  /\ stores' = {}
  /\ UNCHANGED <<list, lineVars, nlines>>

(***************************************************************************)
(* The history specification: the shell after shell_init and one           *)
(* shell_register, driven by the keys of one letter, editing keys and      *)
(* escape sequences.                                                       *)
(***************************************************************************)
Init ==
  /\ InitShell
  /\ InitNoParse
  /\ InitNoFormat
  /\ list = [i \in Entries |->
               IF i = 0
               THEN [shell_program |-> 1, shell_command_string |-> <<CHAR_a>>]
               ELSE EmptyEntry]

RecvChar == \E rxchar \in HistKeys \cup {CHAR_SOH} : ShellDefault(rxchar)

Next ==
  \/ TaskIdle
  \/ RecvEsc
  \/ RecvDel
  \/ RecvHT
  \/ RecvCR
  \/ RecvBS
  \/ RecvChar
  \/ EscIntroducer
  \/ EscAbort
  \/ CsiIgnored
  \/ CsiArrowUp
  \/ CsiArrowDown
  \/ CsiOtherFinal

Spec == Init /\ [][Next]_vars

(***************************************************************************)
(* The dispatch specification: the shell after shell_init, with the host   *)
(* registering commands at any time and the user typing lines of a letter  *)
(* and spaces, for MaxLines completed lines.                               *)
(***************************************************************************)
InitDisp ==
  /\ InitShell
  /\ InitNoParse
  /\ InitNoFormat
  /\ list = [i \in Entries |-> EmptyEntry]

TypeChar == \E rxchar \in DispKeys : ShellDefault(rxchar)

SubmitLine ==
  /\ ~escapeMode
  /\ nlines < MaxLines
  /\ CompleteLine
  /\ nlines' = nlines + 1

NextDisp ==
  \/ Register
  \/ UnregisterAll
  \/ TypeChar
  \/ RecvBS
  \/ SubmitLine

SpecDisp == InitDisp /\ [][NextDisp]_vars

(***************************************************************************)
(* The argument specification: the shell after shell_init and any number   *)
(* of successful shell_register calls, with the user typing lines of      *)
(* spaces, quotes and backslashes, for MaxLines completed lines.           *)
(***************************************************************************)
\* The tables k successful registrations leave: entries 0 .. k - 1 in use,
\* entry i holding handler i + 1.
RegisteredTables ==
  {[i \in Entries |->
      IF i < k
      THEN [shell_program |-> i + 1, shell_command_string |-> f[i]]
      ELSE EmptyEntry] :
     k \in 0 .. CONFIG_SHELL_MAX_COMMANDS, f \in [Entries -> ArgNames]}

InitArgs ==
  /\ InitShell
  /\ InitNoParse
  /\ InitNoFormat
  /\ list \in RegisteredTables

TypeArgChar ==
  /\ nlines < MaxLines
  /\ \E rxchar \in ArgKeys : ShellDefault(rxchar)

NextArgs ==
  \/ TypeArgChar
  \/ SubmitLine

SpecArgs == InitArgs /\ [][NextArgs]_vars

(***************************************************************************)
(* The tokenizer specification: shell_parse, then shell_process_escape,    *)
(* run on every terminated line of at most MaxLineLen characters, with     *)
(* every maxargs up to the configured one.                                 *)
(***************************************************************************)
\* The char arrays holding a line of n characters and its terminator.
LineBuffers(n) ==
  {[i \in 0 .. n |-> IF i = n THEN SHELL_ASCII_NUL ELSE f[i]] :
     f \in [0 .. (n - 1) -> ParseChars]}

InitParse ==
  /\ InitShell
  /\ list = [i \in Entries |-> EmptyEntry]
  /\ pbuf \in UNION {LineBuffers(n) : n \in 0 .. MaxLineLen}
  /\ pmax \in 1 .. CONFIG_SHELL_MAX_COMMAND_ARGS
  /\ pres = [stage |-> "in"]
  /\ InitNoFormat

ParseVarsOnly ==
  UNCHANGED <<initialized, progVars, out, calls, stores, regRet, last, nav, committed, ups, nlines,
              fmtVars>>

\* argc = shell_parse(buf, argv, maxargs)
RunParse ==
  /\ pres.stage = "in"
  /\ LET p == shell_parse(pbuf, pmax)
     IN pres' = [stage |-> "parsed", buf |-> p.buf, argc |-> p.argc,
                 argv |-> p.argv, oob |-> p.oob]
  /\ UNCHANGED <<pbuf, pmax>>
  /\ ParseVarsOnly

\* shell_process_escape(argc, argv)
RunEscape ==
  /\ pres.stage = "parsed"
  /\ \E b \in EscapeOutcomes(pres.buf, pres.argc, pres.argv) :
       pres' = [stage |-> "escaped", buf |-> b, argc |-> pres.argc,
                argv |-> pres.argv, oob |-> pres.oob,
                loads |-> EscapeLoads(pres.buf, pres.argc, pres.argv, 0)]
  /\ UNCHANGED <<pbuf, pmax>>
  /\ ParseVarsOnly

NextParse ==
  \/ RunParse
  \/ RunEscape

SpecParse == InitParse /\ [][NextParse]_vars

(***************************************************************************)
(* The formatter: ui2a, i2a, a2d, a2i, putchw and shell_format.  A         *)
(* template is the sequence of its characters (1-based); reading the cell  *)
(* behind the last one gives the terminator.  unsigned int has 16 bits.    *)
(* A variadic argument is a record: its value read as an int, and the      *)
(* string it points to when read as a char pointer.                        *)
(***************************************************************************)
UIntModulus == 2 ^ 16

ToUInt(n) == n % UIntModulus

FmtAt(fmt, i) == IF i \in 1 .. Len(fmt) THEN fmt[i] ELSE SHELL_ASCII_NUL

\* dgt + (dgt < 10 ? '0' : (uc ? 'A' : 'a') - 10)
DigitChar(dgt, uc) ==
  dgt + (IF dgt < 10 THEN CHAR_ZERO ELSE (IF uc THEN CHAR_A ELSE CHAR_a) - 10)

\* while (num / d >= base) d *= base;
RECURSIVE Ui2aScale(_, _, _)
Ui2aScale(num, base, d) ==
  IF d # 0 /\ num \div d >= base
  THEN Ui2aScale(num, base, ToUInt(d * base))
  ELSE d

\* while (d != 0) { ... }: the digits stored in bf, n of them already stored.
RECURSIVE Ui2aDigits(_, _, _, _, _)
Ui2aDigits(num, base, uc, d, n) ==
  IF d = 0
  THEN <<>>
  ELSE LET dgt == num \div d
           d1 == d \div base
           put == n > 0 \/ dgt > 0 \/ d1 = 0
       IN (IF put THEN <<DigitChar(dgt, uc)>> ELSE <<>>)
          \o Ui2aDigits(num % d, base, uc, d1, IF put THEN n + 1 ELSE n)

ui2a(num, base, uc) == Ui2aDigits(num, base, uc, Ui2aScale(num, base, 1), 0)

\* Mutant: the sign is not stored.
i2aNoSign(num) == ui2a(ToUInt(IF num < 0 THEN -num ELSE num), 10, FALSE)

i2a(num) ==
  IF num < 0
  THEN <<CHAR_MINUS>> \o ui2a(ToUInt(-num), 10, FALSE)
  ELSE ui2a(ToUInt(num), 10, FALSE)

a2d(ch) ==
  IF ch >= CHAR_ZERO /\ ch <= CHAR_NINE THEN ch - CHAR_ZERO
  ELSE IF ch >= CHAR_a /\ ch <= CHAR_f THEN ch - CHAR_a + 10
  ELSE IF ch >= CHAR_A /\ ch <= CHAR_F THEN ch - CHAR_A + 10
  ELSE -1

\* a2i: ch is the character in hand, p the cell the template pointer is at.
RECURSIVE a2i(_, _, _, _, _)
a2i(fmt, ch, p, base, num) ==
  IF a2d(ch) >= 0 /\ ~(a2d(ch) > base)
  THEN a2i(fmt, FmtAt(fmt, p), p + 1, base, num * base + a2d(ch))
  ELSE [ch |-> ch, p |-> p, num |-> num]

RECURSIVE Fill(_, _)
Fill(n, fc) == IF n <= 0 THEN <<>> ELSE <<fc>> \o Fill(n - 1, fc)

\* Mutant: the field is filled with n pad characters whatever the length of
\* the text.
PutchwPadsAlways(o, n, z, bf) ==
  o \o Fill(n, IF z THEN CHAR_ZERO ELSE SHELL_ASCII_SP) \o bf

\* putchw(n, z, bf), appended to the output o.
putchw(o, n, z, bf) ==
  LET left == IF n > Len(bf) THEN n - Len(bf) ELSE IF n > 0 THEN 0 ELSE n
  IN o \o Fill(left, IF z THEN CHAR_ZERO ELSE SHELL_ASCII_SP) \o bf

\* The variadic argument number k (a read behind the last one is recorded in
\* the result of shell_format).
VaArg(args, k) == IF k \in 1 .. Len(args) THEN args[k] ELSE [int |-> 0, str |-> <<>>]

\* The while loop of shell_format from cell i on, k - 1 arguments consumed,
\* o written so far.  The result: the output, whether the loop was left by
\* the abort label, the cell reached, and the arguments consumed.
RECURSIVE FormatLoop(_, _, _, _, _)
FormatLoop(fmt, i, args, k, o) ==
  LET ch == FmtAt(fmt, i)
  IN IF ch = SHELL_ASCII_NUL
     THEN [out |-> o, aborted |-> FALSE, pos |-> i, used |-> k - 1]
     ELSE IF ch # CHAR_PERCENT
     THEN FormatLoop(fmt, i + 1, args, k, ShellPutc(o, ch))
     ELSE LET c1 == FmtAt(fmt, i + 1)
              lz == c1 = CHAR_ZERO
              c2 == IF lz THEN FmtAt(fmt, i + 2) ELSE c1
              p2 == IF lz THEN i + 3 ELSE i + 2
              num == IF c2 >= CHAR_ZERO /\ c2 <= CHAR_NINE
                     THEN a2i(fmt, c2, p2, 10, 0)
                     ELSE [ch |-> c2, p |-> p2, num |-> 0]
              verb == num.ch
              w == num.num
              arg == VaArg(args, k)
          IN CASE verb = SHELL_ASCII_NUL ->
                    [out |-> o, aborted |-> TRUE, pos |-> num.p - 1, used |-> k - 1]
               [] verb = CHAR_u ->
                    FormatLoop(fmt, num.p, args, k + 1,
                               putchw(o, w, lz, ui2a(ToUInt(arg.int), 10, FALSE)))
               [] verb = CHAR_d ->
                    FormatLoop(fmt, num.p, args, k + 1, putchw(o, w, lz, i2a(arg.int)))
               [] verb = CHAR_x \/ verb = CHAR_X ->
                    FormatLoop(fmt, num.p, args, k + 1,
                               putchw(o, w, lz, ui2a(ToUInt(arg.int), 16, verb = CHAR_X)))
               [] verb = CHAR_c ->
                    FormatLoop(fmt, num.p, args, k + 1, ShellPutc(o, arg.int % 256))
               [] verb = CHAR_s ->
                    FormatLoop(fmt, num.p, args, k + 1, putchw(o, w, FALSE, arg.str))
               [] verb = CHAR_PERCENT ->
                    FormatLoop(fmt, num.p, args, k, ShellPutc(o, verb))
               [] OTHER ->
                    FormatLoop(fmt, num.p, args, k, o)

shell_format(fmt, args) == FormatLoop(fmt, 1, args, 1, <<>>)

(***************************************************************************)
(* The formatter specification: shell_printf on every template of at most  *)
(* MaxFmtLen characters over the marker, the flag, two width digits, the    *)
(* verbs u d x X s and a letter that is no verb, with two arguments.       *)
(***************************************************************************)
FmtChars == {CHAR_PERCENT, CHAR_ZERO, CHAR_TWO, CHAR_THREE, CHAR_u, CHAR_d, CHAR_x, CHAR_X,
             CHAR_s, CHAR_q}

Templates(n) == [1 .. n -> FmtChars]

FmtArg(v, s) == [int |-> v, str |-> s]

\* "hi"
HiText == <<CHAR_h, CHAR_i>>

\* 2748 = 0xABC, 255 = 0xFF.
ArgLists ==
  { <<FmtArg(0, <<>>), FmtArg(5, HiText)>>,
    <<FmtArg(5, HiText), FmtArg(255, <<>>)>>,
    <<FmtArg(255, HiText), FmtArg(0, HiText)>>,
    <<FmtArg(2748, HiText), FmtArg(5, <<>>)>>,
    <<FmtArg(-5, HiText), FmtArg(-2748, <<>>)>>,
    <<FmtArg(-2748, <<>>), FmtArg(-5, HiText)>> }

InitFmt ==
  /\ InitShell
  /\ InitNoParse
  /\ list = [i \in Entries |-> EmptyEntry]
  /\ ffmt \in UNION {Templates(n) : n \in 0 .. MaxFmtLen}
  /\ fargs \in ArgLists
  /\ fres = [stage |-> "in"]

\* shell_printf(fmt, ...)
RunFormat ==
  /\ fres.stage = "in"
  /\ LET r == shell_format(ffmt, fargs)
     IN fres' = [stage |-> "done", out |-> r.out, aborted |-> r.aborted,
                 pos |-> r.pos, used |-> r.used]
  /\ UNCHANGED <<ffmt, fargs>>
  /\ UNCHANGED <<initialized, progVars, out, calls, stores, regRet, last, nav, committed, ups, nlines,
                 parseVars>>

NextFmt == RunFormat

SpecFmt == InitFmt /\ [][NextFmt]_vars

(***************************************************************************)
(* The raw-text specification: MaxLines lines of quotes and backslashes    *)
(* are typed and completed, with backspace and history navigation between *)
(* and behind them.                                                        *)
(***************************************************************************)
TypeRawChar ==
  /\ nlines < MaxLines
  /\ \E rxchar \in RawKeys : ShellDefault(rxchar)

NextRaw ==
  \/ TypeRawChar
  \/ RecvBS
  \/ SubmitLine
  \/ RecvEsc
  \/ EscIntroducer
  \/ CsiArrowUp
  \/ CsiArrowDown

SpecRaw == Init /\ [][NextRaw]_vars

(***************************************************************************)
(* shell_init called again on a running shell.  reader and writer are the  *)
(* callbacks (0: a null pointer), msg the banner.  The flags escapeMode    *)
(* and csiMode are statics of shell_task: shell_init has no access to      *)
(* them.                                                                   *)
(***************************************************************************)
ShellInit(reader, writer, msg) ==
  /\ IF reader = 0 \/ writer = 0
     THEN /\ last' = [op |-> "init", ret |-> FALSE]
          /\ out' = <<>>
          /\ stores' = {}
          /\ UNCHANGED <<initialized, list, lineVars, nav, committed, ups>>
     ELSE /\ list' = [i \in Entries |-> EmptyEntry]
          /\ initialized' = TRUE
          /\ shellbuf' = [s \in Slots |-> Wr(shellbuf[s], 0, SHELL_ASCII_NUL)]
          /\ currentBuf' = 0
          /\ historyBuf' = 0
          /\ oldestBuf' = 0
          /\ bufferWrapped' = FALSE
          /\ count' = 0
          /\ out' = ShellPrompt(ShellPrintln(<<>>, msg))
          /\ stores' = {0}
          /\ last' = [op |-> "init", ret |-> TRUE]
          /\ nav' = NoNav
          /\ committed' = <<>>
          /\ ups' = 0
          /\ UNCHANGED scratchpad
  /\ calls' = <<>>
  /\ UNCHANGED <<escapeMode, csiMode, regRet, nlines, pbuf, pmax, pres, fmtVars>>

InitMessages == {<<CHAR_a>>}

ShellInitCall ==
  \E reader \in {0, 1}, writer \in {0, 1}, msg \in InitMessages :
    ShellInit(reader, writer, msg)

\* The zeroed globals of the program before the first shell_init.
InitCold ==
  /\ initialized = FALSE
  /\ list = [i \in Entries |-> EmptyEntry]
  /\ shellbuf = [s \in Slots |-> [i \in Cells |-> SHELL_ASCII_NUL]]
  /\ scratchpad = [i \in Cells |-> SHELL_ASCII_NUL]
  /\ currentBuf = 0
  /\ historyBuf = 0
  /\ oldestBuf = 0
  /\ bufferWrapped = FALSE
  /\ count = 0
  /\ escapeMode = FALSE
  /\ csiMode = FALSE
  /\ out = <<>>
  /\ calls = <<>>
  /\ stores = {}
  /\ regRet = -1
  /\ last = [op |-> "start"]
  /\ nav = NoNav
  /\ committed = <<>>
  /\ ups = 0
  /\ nlines = 0
  /\ InitNoParse
  /\ InitNoFormat

\* The initialisation specification: shell_task and shell_init from the
\* start of the program, with lines of one letter, the arrow-up sequence,
\* idle calls, and shell_init again at any point.
NextInit ==
  \/ ShellInitCall
  \/ TaskNotInitialized
  \/ TaskIdle
  \/ RecvChar
  \/ RecvCR
  \/ RecvEsc
  \/ EscIntroducer
  \/ EscAbort
  \/ CsiArrowUp

SpecInit == InitCold /\ [][NextInit]_vars

(***************************************************************************)
(* Reference definitions: what a user expects of a line, stated on the     *)
(* line as typed (a sequence of characters, 1-based), without the buffer.  *)
(***************************************************************************)
\* Character i follows a backslash.
RefEscaped(line, i) == i > 1 /\ line[i - 1] = CHAR_BACKSLASH

\* The quote characters that delimit quoted spans.
RefDelims(line) ==
  {i \in 1 .. Len(line) : line[i] = CHAR_QUOTE /\ ~RefEscaped(line, i)}

\* Position i lies after an opening and before the closing delimiter.
RefQuoted(line, i) == Cardinality({d \in RefDelims(line) : d < i}) % 2 = 1

\* The spaces outside quoted spans.
RefBreaks(line) ==
  {i \in 1 .. Len(line) : line[i] = SHELL_ASCII_SP /\ ~RefQuoted(line, i)}

\* The characters from..to of the line, without the delimiting quotes.
RECURSIVE RefPick(_, _, _)
RefPick(line, from, to) ==
  IF from > to
  THEN <<>>
  ELSE (IF from \in RefDelims(line) THEN <<>> ELSE <<line[from]>>)
       \o RefPick(line, from + 1, to)

\* The line split at its unquoted spaces, from position `from` on.
RECURSIVE RefSplit(_, _)
RefSplit(line, from) ==
  LET later == {b \in RefBreaks(line) : b >= from}
  IN IF later = {}
     THEN <<RefPick(line, from, Len(line))>>
     ELSE <<RefPick(line, from, Min(later) - 1)>> \o RefSplit(line, Min(later) + 1)

RefTokens(line) == RefSplit(line, 1)

\* Every quoted span starts at the beginning of a token and ends in front of
\* a space or at the end of the line.
RefWellQuoted(line) ==
  \A d \in RefDelims(line) :
    IF RefQuoted(line, d)
    THEN d = Len(line) \/ line[d + 1] = SHELL_ASCII_SP
    ELSE d = 1 \/ (d - 1) \in RefBreaks(line)

\* A token with every backslash-quote pair replaced by a quote.
RECURSIVE RefUnescape(_)
RefUnescape(tok) ==
  IF Len(tok) < 2
  THEN tok
  ELSE IF tok[1] = CHAR_BACKSLASH /\ tok[2] = CHAR_QUOTE
       THEN <<CHAR_QUOTE>> \o RefUnescape(SubSeq(tok, 3, Len(tok)))
       ELSE <<tok[1]>> \o RefUnescape(SubSeq(tok, 2, Len(tok)))

RefArgs(line) == [k \in 1 .. Len(RefTokens(line)) |-> RefUnescape(RefTokens(line)[k])]

\* The number of places at which pat occurs in s.
Occurrences(s, pat) ==
  Cardinality({i \in 1 .. (Len(s) - Len(pat) + 1) : SubSeq(s, i, i + Len(pat) - 1) = pat})

\* The table entries holding a handler registered under `name`.
RefMatching(name) ==
  {i \in Entries : list[i].shell_program # 0 /\ list[i].shell_command_string = name}

\* The step completes a line (dispatch and argument specifications).
LineSubmitted == nlines' = nlines + 1

\* The step is a call of shell_task that received rxchar in Normal mode.
NormalKey(rxchar) ==
  /\ last'.op = "task" /\ last'.rx = rxchar
  /\ ~escapeMode

\* The step is a call of shell_task that received the final byte rxchar of a
\* control sequence.
CsiKey(rxchar) ==
  /\ last'.op = "task" /\ last'.rx = rxchar
  /\ escapeMode /\ csiMode

\* The stored history: the slots from oldestBuf up to the slot in front of
\* currentBuf, in ring order.
HistoryLen ==
  (currentBuf - oldestBuf + CONFIG_SHELL_COMMAND_HISTORY) % CONFIG_SHELL_COMMAND_HISTORY

RingEntries ==
  [k \in 1 .. HistoryLen |->
     CStr(shellbuf[(oldestBuf + k - 1) % CONFIG_SHELL_COMMAND_HISTORY])]

(***************************************************************************)
(* C1.  Arrow-up followed by arrow-down, from the newest slot with at      *)
(* least one stored entry, restores the visible text, the cursor count and *)
(* historyBuf that existed before the navigation (nav records them when    *)
(* arrow-up leaves the newest slot, and is dropped by any other key).      *)
(* Checked under Spec.  The code does not satisfy it: backspace leaves the *)
(* erased character in the slot, arrow-up saves the slot as a C string.    *)
(***************************************************************************)
C1_UpDownRestores ==
  nav.phase = "down" =>
    /\ Visible = nav.text
    /\ count = nav.count
    /\ historyBuf = nav.hist

(***************************************************************************)
(* C2.  For every completed line and every table, at most one handler is   *)
(* invoked: the lowest-index entry whose name equals the first argument.   *)
(* Checked under SpecDisp.  The code does not satisfy it: the search loop  *)
(* does not stop at the first match.                                       *)
(***************************************************************************)
C2_FirstMatchOnly ==
  [][LineSubmitted =>
       LET m == RefMatching(RefArgs(Visible)[1])
       IN IF m = {}
          THEN calls' = <<>>
          ELSE /\ Len(calls') = 1
               /\ calls'[1].entry = Min(m)]_vars

(***************************************************************************)
(* C3.  Carriage return on an empty line invokes no handler and prints no  *)
(* "Command NOT found.", whatever the table holds.  Checked under          *)
(* SpecDisp.  The code does not satisfy it: the table is searched for the  *)
(* empty first argument too.                                               *)
(***************************************************************************)
C3_EmptyLineIsQuiet ==
  [][LineSubmitted /\ count = 0 =>
       /\ calls' = <<>>
       /\ Occurrences(out', NotFoundText) = 0]_vars

(***************************************************************************)
(* C4.  For a completed non-empty line: when no registered name equals the *)
(* first argument, "Command NOT found." is printed exactly once and no     *)
(* handler is invoked; when some entry matches, it is not printed.         *)
(* Checked under SpecDisp.                                                 *)
(***************************************************************************)
C4_NotFoundReport ==
  [][LineSubmitted /\ count > 0 =>
       IF RefMatching(RefArgs(Visible)[1]) = {}
       THEN /\ Occurrences(out', NotFoundText) = 1
            /\ calls' = <<>>
       ELSE Occurrences(out', NotFoundText) = 0]_vars

\* A non-empty line was completed, matched no entry of a non-empty table and
\* was reported.
C4_Witness ==
  /\ nlines > 0
  /\ last.op = "task" /\ last.rx = SHELL_ASCII_CR
  /\ \E i \in Entries : list[i].shell_program # 0
  /\ committed # <<>>
  /\ Occurrences(out, NotFoundText) = 1
  /\ calls = <<>>

(***************************************************************************)
(* C5.  For a completed line whose first argument is the name of exactly   *)
(* one registered command, that handler is invoked exactly once, with argc *)
(* the number of tokens of the line and argv the tokens in order after     *)
(* escape resolution.  The tokens are those shell_parse and                *)
(* shell_process_escape produce for the line in a buffer of its own; on a  *)
(* well-quoted line they are also the reference arguments.  Checked under  *)
(* SpecArgs.                                                               *)
(***************************************************************************)
\* The line in a buffer of its own, terminated.
LineBuffer(line) ==
  [i \in 0 .. Len(line) |-> IF i = Len(line) THEN SHELL_ASCII_NUL ELSE line[i + 1]]

\* The arguments the tokenizer and the escape pass produce for the line.
LineArgs(line) ==
  LET p == shell_parse(LineBuffer(line), CONFIG_SHELL_MAX_COMMAND_ARGS)
  IN ArgStrings(shell_process_escape(p.buf, p.argc, p.argv), p.argc, p.argv)

C5_HandlerGetsAllTokens ==
  [][LineSubmitted =>
       /\ Cardinality(RefMatching(LineArgs(Visible)[1])) = 1 =>
            /\ Len(calls') = 1
            /\ calls'[1].entry \in RefMatching(LineArgs(Visible)[1])
            /\ calls'[1].program = list[calls'[1].entry].shell_program
            /\ calls'[1].argc = Len(LineArgs(Visible))
            /\ calls'[1].argv = LineArgs(Visible)
       /\ RefWellQuoted(Visible) /\ Cardinality(RefMatching(RefArgs(Visible)[1])) = 1 =>
            /\ Len(calls') = 1
            /\ calls'[1].entry \in RefMatching(RefArgs(Visible)[1])
            /\ calls'[1].argc = Len(RefArgs(Visible))
            /\ calls'[1].argv = RefArgs(Visible)]_vars

\* With two commands registered, the one named by a backslash ran alone, on a
\* line of two tokens.
C5_Witness ==
  /\ nlines > 0
  /\ Len(calls) = 1
  /\ calls[1].argc = 2
  /\ calls[1].argv[1] = <<CHAR_BACKSLASH>>
  /\ Cardinality({i \in Entries : list[i].shell_program # 0}) = 2

(***************************************************************************)
(* C6.  In every reachable state no two history entries adjacent in commit *)
(* order (oldestBuf up to the slot in front of currentBuf) hold the same   *)
(* text.  Checked under Spec.                                              *)
(***************************************************************************)
C6_NoAdjacentDuplicates ==
  \A k \in 1 .. (HistoryLen - 1) : RingEntries[k] # RingEntries[k + 1]

\* A line equal to the newest entry was completed and not appended: it is
\* still in the current slot, behind a full ring.
C6_Witness ==
  /\ last.op = "task" /\ last.rx = SHELL_ASCII_CR /\ ~last.esc
  /\ bufferWrapped
  /\ count = 0
  /\ CStr(shellbuf[currentBuf]) # <<>>
  /\ CStr(shellbuf[currentBuf]) = RingEntries[HistoryLen]

(***************************************************************************)
(* C7.  Eviction is first-in first-out.  The stored history is always the  *)
(* sequence of the most recently committed lines (committed: every         *)
(* non-empty line that differs from the one committed before it, the       *)
(* oldest dropped when the ring is full), and the k-th arrow-up in a row   *)
(* from a fresh prompt shows the k-th newest of them, or alerts when fewer *)
(* than k are stored.  Checked under Spec.                                 *)
(***************************************************************************)
C7_FifoEviction ==
  /\ [](RingEntries = committed)
  /\ [][CsiKey(SHELL_VT100_ARROWUP) /\ ups >= 0 =>
          IF ups + 1 <= Len(committed)
          THEN /\ Visible' = committed[Len(committed) - ups]
               /\ out' = Erase(count) \o committed[Len(committed) - ups]
          ELSE /\ out' = <<SHELL_ASCII_BEL>>
               /\ Visible' = Visible]_vars

\* After the ring wrapped, arrow-up was pressed from a fresh prompt until the
\* alert: the oldest stored line is on display.
C7_Witness ==
  /\ bufferWrapped
  /\ ups = CONFIG_SHELL_COMMAND_HISTORY
  /\ last.op = "task" /\ last.rx = SHELL_VT100_ARROWUP /\ last.csi
  /\ out = <<SHELL_ASCII_BEL>>
  /\ Visible = committed[1]

(***************************************************************************)
(* C8.  Backspace with count = 0, arrow-up with historyBuf = oldestBuf,    *)
(* arrow-down with historyBuf = currentBuf, and Tab or Delete in Normal    *)
(* mode output exactly one BEL and leave every ring slot, the scratch      *)
(* buffer, currentBuf, historyBuf, oldestBuf, bufferWrapped and count      *)
(* unchanged.  Checked under Spec.                                         *)
(***************************************************************************)
C8_InvalidEditsOnlyAlert ==
  [][(\/ NormalKey(SHELL_ASCII_BS) /\ count = 0
      \/ CsiKey(SHELL_VT100_ARROWUP) /\ historyBuf = oldestBuf
      \/ CsiKey(SHELL_VT100_ARROWDOWN) /\ historyBuf = currentBuf
      \/ NormalKey(SHELL_ASCII_HT)
      \/ NormalKey(SHELL_ASCII_DEL))
     =>
       /\ out' = <<SHELL_ASCII_BEL>>
       /\ shellbuf' = shellbuf
       /\ scratchpad' = scratchpad
       /\ currentBuf' = currentBuf
       /\ historyBuf' = historyBuf
       /\ oldestBuf' = oldestBuf
       /\ bufferWrapped' = bufferWrapped
       /\ count' = count]_vars

\* Delete was received in Normal mode while a recalled line was on display,
\* and only the alert came out.
C8_Witness ==
  /\ last.op = "task" /\ last.rx = SHELL_ASCII_DEL /\ ~last.esc
  /\ out = <<SHELL_ASCII_BEL>>
  /\ count > 0
  /\ historyBuf # currentBuf

(***************************************************************************)
(* C9.  shell_register stores the pair in the lowest-index empty entry and *)
(* returns true; with every entry occupied it returns false and the table  *)
(* is unchanged.  Checked under SpecDisp.                                  *)
(***************************************************************************)
C9_RegisterLowestEmpty ==
  [][last'.op = "register" =>
       LET empty == {i \in Entries : list[i] = EmptyEntry}
       IN IF empty = {}
          THEN /\ regRet' = 0
               /\ list' = list
          ELSE /\ regRet' = 1
               /\ list' = [list EXCEPT ![Min(empty)] =
                             [shell_program |-> last'.program,
                              shell_command_string |-> last'.string]]]_vars

\* A registration failed on a full table.
C9_Witness ==
  /\ last.op = "register"
  /\ regRet = 0
  /\ \A i \in Entries : list[i].shell_program # 0

(***************************************************************************)
(* C10.  On a well-quoted line with fewer tokens than the argument limit,  *)
(* shell_parse splits exactly at the spaces outside quoted spans (one more *)
(* token than unquoted spaces), keeps quoted spaces and removes the        *)
(* delimiting quotes.  Checked under SpecParse.                            *)
(***************************************************************************)
C10_SplitsAtUnquotedSpaces ==
  pres.stage = "parsed" /\ RefWellQuoted(CStr(pbuf))
                        /\ Len(RefTokens(CStr(pbuf))) < pmax =>
    /\ pres.argc = Cardinality(RefBreaks(CStr(pbuf))) + 1
    /\ ArgStrings(pres.buf, pres.argc, pres.argv) = RefTokens(CStr(pbuf))

\* A line of three tokens, the middle one a quoted span holding a space, was
\* tokenized.
C10_Witness ==
  /\ pres.stage = "parsed"
  /\ RefWellQuoted(CStr(pbuf))
  /\ pres.argc = 3 /\ pmax > 3
  /\ Cardinality(RefDelims(CStr(pbuf))) = 2
  /\ \E k \in 1 .. 3 :
       ArgStrings(pres.buf, pres.argc, pres.argv)[k] = <<SHELL_ASCII_SP>>

(***************************************************************************)
(* C11.  After tokenization and escape resolution every token is its text  *)
(* as tokenized with each backslash-quote pair replaced by a quote and     *)
(* every other character unchanged and in order, for any number of pairs;  *)
(* a quote that follows a backslash is never taken as a delimiter: the     *)
(* tokenizer leaves it in the buffer and stays outside, or inside, the     *)
(* quoted span.  Checked under SpecParse.                                  *)
(***************************************************************************)
\* The 0-based cells of the line that hold a quote behind a backslash.
EscapedQuoteCells(buf) ==
  {i \in DOMAIN buf : i > 0 /\ buf[i] = CHAR_QUOTE /\ buf[i - 1] = CHAR_BACKSLASH}

C11_EscapeResolution ==
  /\ [](pres.stage = "parsed" =>
          \A i \in EscapedQuoteCells(pbuf) : pres.buf[i] = CHAR_QUOTE)
  /\ [][pres.stage = "parsed" /\ pres'.stage = "escaped" =>
          /\ pres'.argc = pres.argc
          /\ pres'.argv = pres.argv
          /\ ArgStrings(pres'.buf, pres'.argc, pres'.argv) =
               [k \in 1 .. pres.argc |->
                  RefUnescape(ArgStrings(pres.buf, pres.argc, pres.argv)[k])]]_vars

\* A line of two tokens was de-escaped; the second token held two
\* backslash-quote pairs and is now two quotes.
C11_Witness ==
  /\ pres.stage = "escaped"
  /\ pres.argc = 2
  /\ Len(CStr(pbuf)) = 6
  /\ ArgStrings(pres.buf, pres.argc, pres.argv)[2] = <<CHAR_QUOTE, CHAR_QUOTE>>

(***************************************************************************)
(* C12.  Tokenizing an empty line yields exactly one argument, the empty   *)
(* string, for every maxargs.  Checked under SpecParse.                    *)
(***************************************************************************)
C12_EmptyLineOneEmptyToken ==
  pres.stage = "parsed" /\ CStr(pbuf) = <<>> =>
    /\ pres.argc = 1
    /\ pres.argv[0] = 0
    /\ ArgStrings(pres.buf, pres.argc, pres.argv) = << <<>> >>

\* The empty line was tokenized with the largest maxargs.
C12_Witness ==
  /\ pres.stage = "parsed"
  /\ Strlen(pbuf) = 0
  /\ pmax = CONFIG_SHELL_MAX_COMMAND_ARGS
  /\ pres.argc = 1

(***************************************************************************)
(* C13.  Tokenization never fails: for every line and every maxargs,       *)
(* shell_parse returns a count between 1 and maxargs, and the arguments    *)
(* returned are the first tokens of the line (the tokens a vector with     *)
(* room for all of them receives), the rest of the line dropped, without   *)
(* an error: in particular without a store outside the argument vector.    *)
(* Checked under SpecParse.  The code does not satisfy it: the space that  *)
(* raises the count to maxargs also stores the start of the next token at  *)
(* argv[maxargs].                                                          *)
(***************************************************************************)
\* The tokens of the line when the vector has room for all of them.
AllTokens(buf) ==
  LET p == shell_parse(buf, ArrLen(buf) + 1)
  IN ArgStrings(p.buf, p.argc, p.argv)

C13_TruncatesGracefully ==
  pres.stage = "parsed" =>
    /\ pres.argc >= 1 /\ pres.argc <= pmax
    /\ pres.argc <= Len(AllTokens(pbuf))
    /\ ArgStrings(pres.buf, pres.argc, pres.argv) = SubSeq(AllTokens(pbuf), 1, pres.argc)
    /\ Len(AllTokens(pbuf)) <= pmax => pres.argc = Len(AllTokens(pbuf))
    /\ ~pres.oob

(***************************************************************************)
(* Reference definitions for the formatter.                                *)
(***************************************************************************)
\* "0123456789abcdef" and "0123456789ABCDEF"
RefLowerDigits == <<48, 49, 50, 51, 52, 53, 54, 55, 56, 57, 97, 98, 99, 100, 101, 102>>
RefUpperDigits == <<48, 49, 50, 51, 52, 53, 54, 55, 56, 57, 65, 66, 67, 68, 69, 70>>

\* The minimal digit string of v in the base, least significant digit last.
RECURSIVE RefDigits(_, _, _)
RefDigits(v, base, digits) ==
  IF v < base
  THEN <<digits[v + 1]>>
  ELSE Append(RefDigits(v \div base, base, digits), digits[(v % base) + 1])

\* s, left-padded to w characters with the fill character.
RefPad(s, w, fill) ==
  IF Len(s) >= w THEN s ELSE [k \in 1 .. (w - Len(s)) |-> fill] \o s

\* The value of a string of decimal digits (0 for the empty string).
RECURSIVE RefDecimal(_)
RefDecimal(ds) ==
  IF ds = <<>>
  THEN 0
  ELSE 10 * RefDecimal(SubSeq(ds, 1, Len(ds) - 1)) + (ds[Len(ds)] - 48)

\* The template without its leading, and without its trailing, letters q.
RECURSIVE RefDropLead(_)
RefDropLead(t) ==
  IF t # <<>> /\ t[1] = CHAR_q THEN RefDropLead(Tail(t)) ELSE t

RECURSIVE RefDropTrail(_)
RefDropTrail(t) ==
  IF t # <<>> /\ t[Len(t)] = CHAR_q THEN RefDropTrail(SubSeq(t, 1, Len(t) - 1)) ELSE t

RefLead(t) == SubSeq(t, 1, Len(t) - Len(RefDropLead(t)))
RefTrail(t) == SubSeq(t, Len(RefDropTrail(t)) + 1, Len(t))
RefCore(t) == RefDropTrail(RefDropLead(t))

\* The core is one conversion: the marker, an optional flag 0, an optional
\* decimal width and a verb out of the set.
RefIsConversion(core, verbs) ==
  /\ Len(core) >= 2
  /\ core[1] = CHAR_PERCENT
  /\ core[Len(core)] \in verbs
  /\ \A k \in 2 .. (Len(core) - 1) : core[k] >= 48 /\ core[k] <= 57

RefFlag(core) == Len(core) > 2 /\ core[2] = CHAR_ZERO
RefWidth(core) ==
  RefDecimal(SubSeq(core, IF RefFlag(core) THEN 3 ELSE 2, Len(core) - 1))

\* What one numeric conversion prints for the value v.
RefNumber(core, v) ==
  LET verb == core[Len(core)]
      ds == IF verb = CHAR_x THEN RefDigits(v, 16, RefLowerDigits)
            ELSE IF verb = CHAR_X THEN RefDigits(v, 16, RefUpperDigits)
            ELSE RefDigits(v, 10, RefLowerDigits)
  IN RefPad(ds, RefWidth(core), IF RefFlag(core) THEN 48 ELSE 32)

(***************************************************************************)
(* C14.  A template holding one conversion %[0][w]u, %[0][w]d (value not   *)
(* negative), %[0][w]x or %[0][w]X prints the minimal digit string of the  *)
(* value in the base of the verb (most significant digit first, 0 for      *)
(* zero, a-f for x, A-F for X), left-padded to w characters with spaces,   *)
(* or zeros with the flag, and unpadded when it is w long or longer; %s    *)
(* prints the string.  Literal text around the conversion is copied.       *)
(* Checked under SpecFmt.                                                  *)
(***************************************************************************)
C14_NumericVerbs ==
  fres.stage = "done" =>
    /\ RefIsConversion(RefCore(ffmt), {CHAR_u, CHAR_d, CHAR_x, CHAR_X})
         /\ fargs[1].int >= 0 =>
         /\ fres.out = RefLead(ffmt) \o RefNumber(RefCore(ffmt), fargs[1].int)
                                      \o RefTrail(ffmt)
         /\ ~fres.aborted
    /\ RefCore(ffmt) = <<CHAR_PERCENT, CHAR_s>> =>
         fres.out = RefLead(ffmt) \o fargs[1].str \o RefTrail(ffmt)

\* "%02X" was rendered with the value 2748 and gave "ABC".
C14_Witness ==
  /\ fres.stage = "done"
  /\ ffmt = <<CHAR_PERCENT, CHAR_ZERO, CHAR_TWO, CHAR_X>>
  /\ fargs[1].int = 2748
  /\ fres.out = <<65, 66, 67>>

(***************************************************************************)
(* C15.  When the marker is followed (behind an optional flag and width)   *)
(* by the end of the template or by a character that is no verb,           *)
(* formatting aborts there: nothing behind that position is output or      *)
(* interpreted.  Checked under SpecFmt.  As stated it is refuted: only the *)
(* end of the template aborts.  A character that is no verb is consumed    *)
(* with the marker, prints nothing, and formatting goes on behind it       *)
(* (C15_BadVerbIsSkipped).                                                 *)
(***************************************************************************)
\* The first n characters are literal text, character n + 1 is the marker,
\* and behind the marker and a run of digits stands cell m: the end of the
\* template (m = Len + 1) or the letter q, which is no verb.
RefBadVerb(fmt, n, m) ==
  /\ n + 1 <= Len(fmt) /\ m >= n + 2 /\ m <= Len(fmt) + 1
  /\ \A k \in 1 .. n : fmt[k] # CHAR_PERCENT
  /\ fmt[n + 1] = CHAR_PERCENT
  /\ \A k \in (n + 2) .. (m - 1) : fmt[k] >= 48 /\ fmt[k] <= 57
  /\ m = Len(fmt) + 1 \/ fmt[m] = CHAR_q

C15_BadVerbAborts ==
  fres.stage = "done" =>
    \A n \in 0 .. Len(ffmt), m \in 1 .. (Len(ffmt) + 1) :
      RefBadVerb(ffmt, n, m) => fres.out = SubSeq(ffmt, 1, n)

C15_BadVerbIsSkipped ==
  fres.stage = "done" =>
    \A n \in 0 .. Len(ffmt), m \in 1 .. (Len(ffmt) + 1) :
      RefBadVerb(ffmt, n, m) =>
        IF m = Len(ffmt) + 1
        THEN /\ fres.out = SubSeq(ffmt, 1, n)
             /\ fres.aborted
             /\ fres.used = 0
        ELSE LET rest == shell_format(SubSeq(ffmt, m + 1, Len(ffmt)), fargs)
             IN /\ fres.out = SubSeq(ffmt, 1, n) \o rest.out
                /\ fres.aborted = rest.aborted
                /\ fres.used = rest.used

\* The template "%2qq" was rendered: the letter behind the width printed
\* nothing and the text behind it was copied.
C15_Witness ==
  /\ fres.stage = "done"
  /\ ffmt = <<CHAR_PERCENT, CHAR_TWO, CHAR_q, CHAR_q>>
  /\ fres.out = <<CHAR_q>>
  /\ ~fres.aborted

(***************************************************************************)
(* C16.  In every reachable state every slot of the history ring holds a   *)
(* terminator, so its string is at most CONFIG_SHELL_MAX_INPUT - 1 long;   *)
(* count never exceeds CONFIG_SHELL_MAX_INPUT - 1; and every store to a    *)
(* slot or to the scratch buffer uses an index in                          *)
(* 0 .. CONFIG_SHELL_MAX_INPUT - 1.  Checked under Spec.                   *)
(***************************************************************************)
C16_BuffersBounded ==
  /\ [](/\ \A s \in Slots :
            /\ \E i \in Cells : shellbuf[s][i] = SHELL_ASCII_NUL
            /\ Strlen(shellbuf[s]) <= CONFIG_SHELL_MAX_INPUT - 1
        /\ count <= CONFIG_SHELL_MAX_INPUT - 1)
  /\ [][stores' \subseteq 0 .. (CONFIG_SHELL_MAX_INPUT - 1)]_vars

\* A full line was completed (the terminator went to the last cell), and a
\* full line was recalled from the history.
C16_Witness ==
  /\ last.op = "task" /\ last.esc /\ last.csi /\ last.rx = SHELL_VT100_ARROWUP
  /\ count = CONFIG_SHELL_MAX_INPUT - 1
  /\ (CONFIG_SHELL_MAX_INPUT - 1) \in stores
  /\ \A s \in Slots : s # currentBuf /\ s # oldestBuf =>
       Strlen(shellbuf[s]) = CONFIG_SHELL_MAX_INPUT - 1

(***************************************************************************)
(* C17.  After shell_init returns success, whatever bytes were processed   *)
(* before, the session state is reset: every slot is the empty string, the *)
(* three ring indices are 0, bufferWrapped is false, count is 0, and the   *)
(* input state machine is in Normal (escapeMode and csiMode cleared).      *)
(* Checked under SpecInit.  The code does not satisfy it: the two flags    *)
(* are statics of shell_task and keep their values across shell_init.      *)
(***************************************************************************)
InitReturnedTrue == last.op = "init" /\ last.ret

C17_InitResetsSession ==
  InitReturnedTrue =>
    /\ \A s \in Slots : CStr(shellbuf[s]) = <<>>
    /\ currentBuf = 0 /\ historyBuf = 0 /\ oldestBuf = 0
    /\ ~bufferWrapped
    /\ count = 0
    /\ ~escapeMode /\ ~csiMode

\* What shell_init does reset.
C17_InitResetsRing ==
  InitReturnedTrue =>
    /\ \A s \in Slots : CStr(shellbuf[s]) = <<>>
    /\ currentBuf = 0 /\ historyBuf = 0 /\ oldestBuf = 0
    /\ ~bufferWrapped
    /\ count = 0

(***************************************************************************)
(* C18.  A carriage return outside an escape sequence completes the line   *)
(* in the same call: the line is tokenized and dispatched, the history is  *)
(* committed and the line state is cleared, and the prompt "device>" is    *)
(* output exactly once and last, behind the output of every handler and    *)
(* behind "Command NOT found.", for empty, matched and unmatched lines.    *)
(* Checked under SpecDisp.                                                 *)
(***************************************************************************)
C18_PromptOnceAndLast ==
  [][LineSubmitted =>
       /\ last'.rx = SHELL_ASCII_CR /\ ~last'.esc
       /\ count' = 0
       /\ historyBuf' = currentBuf'
       /\ Occurrences(out', PromptText) = 1
       /\ LastOnes(out', Len(PromptText)) = PromptText
       /\ \A k \in DOMAIN calls' :
            calls'[k].at <= Len(out') - Len(PromptText)
       /\ \A k \in 1 .. Len(out') :
            k + Len(NotFoundText) - 1 <= Len(out')
            /\ SubSeq(out', k, k + Len(NotFoundText) - 1) = NotFoundText
            => k + Len(NotFoundText) - 1 <= Len(out') - Len(PromptText)]_vars

\* A line that matched a registered name was completed: a handler ran and
\* the prompt came behind it.
C18_Witness ==
  /\ nlines > 0
  /\ last.op = "task" /\ last.rx = SHELL_ASCII_CR /\ ~last.esc
  /\ Len(calls) > 0
  /\ LastOnes(out, Len(PromptText)) = PromptText

InNormal == ~escapeMode /\ ~csiMode
InEscapeSeen == escapeMode /\ ~csiMode
InCsi == escapeMode /\ csiMode

C20_EscapeTransitions ==
  [][last'.op = "task" =>
       LET rx == last'.rx
       IN /\ InNormal \/ InEscapeSeen \/ InCsi
          /\ InNormal =>
               IF rx = SHELL_ASCII_ESC THEN InEscapeSeen' ELSE InNormal'
          /\ InEscapeSeen =>
               /\ IF rx = SHELL_VT100_CSI THEN InCsi' ELSE InNormal'
               /\ UNCHANGED lineVars /\ out' = <<>>
          /\ InCsi /\ ((rx >= 48 /\ rx <= 63) \/ (rx >= 32 /\ rx <= 47)) =>
               /\ InCsi'
               /\ UNCHANGED lineVars /\ out' = <<>>
          /\ InCsi /\ rx >= 64 /\ rx <= 126 =>
               /\ InNormal'
               /\ rx \notin {SHELL_VT100_ARROWUP, SHELL_VT100_ARROWDOWN} =>
                    UNCHANGED lineVars /\ out' = <<>>]_vars

\* The sequence ESC [ 0 C was received while a line was being typed: the
\* final 'C' closed the sequence and the line is as it was.
C20_Witness ==
  /\ last.op = "task" /\ last.esc /\ last.csi /\ last.rx = CHAR_C
  /\ InNormal
  /\ count > 0
  /\ out = <<>>

(***************************************************************************)
(* C21.  In Normal mode a printable byte (0x20-0x7E) received while count  *)
(* is below CONFIG_SHELL_MAX_INPUT - 1 is stored at cell count of the      *)
(* current slot, echoed exactly once, and raises count by one; at full     *)
(* capacity it is dropped with no echo and no change of state; a byte that *)
(* is neither printable nor CR, BS, ESC, Tab or Delete is ignored with no  *)
(* echo and no change of state.  Checked under Spec.                       *)
(***************************************************************************)
RefPrintable(rxchar) == rxchar >= 32 /\ rxchar <= 126

C21_PrintableStoredOrDropped ==
  [][last'.op = "task" /\ ~escapeMode =>
       LET rx == last'.rx
       IN /\ RefPrintable(rx) /\ count < CONFIG_SHELL_MAX_INPUT - 1 =>
               /\ shellbuf'[currentBuf][count] = rx
               /\ \A i \in Cells : i < count =>
                    shellbuf'[currentBuf][i] = shellbuf[currentBuf][i]
               /\ \A s \in Slots : s # currentBuf => shellbuf'[s] = shellbuf[s]
               /\ out' = <<rx>>
               /\ count' = count + 1
               /\ UNCHANGED <<list, scratchpad, currentBuf, historyBuf, oldestBuf,
                              bufferWrapped, escapeMode, csiMode>>
          /\ RefPrintable(rx) /\ count >= CONFIG_SHELL_MAX_INPUT - 1 =>
               /\ out' = <<>>
               /\ UNCHANGED progVars
          /\ /\ ~RefPrintable(rx)
             /\ rx \notin {SHELL_ASCII_CR, SHELL_ASCII_BS, SHELL_ASCII_ESC,
                           SHELL_ASCII_HT, SHELL_ASCII_DEL}
             => /\ out' = <<>>
                /\ UNCHANGED progVars]_vars

\* A printable byte arrived at a full line and was dropped.
C21_Witness ==
  /\ last.op = "task" /\ ~last.esc /\ last.rx = CHAR_a
  /\ count = CONFIG_SHELL_MAX_INPUT - 1
  /\ Visible = [k \in 1 .. (CONFIG_SHELL_MAX_INPUT - 1) |-> CHAR_a]
  /\ out = <<>>

(***************************************************************************)
(* C22.  Arrow-up when historyBuf is not the oldest entry moves historyBuf *)
(* one entry older with wraparound, copies that entry into the current     *)
(* slot and sets count to its length, so the line on display is the k-th   *)
(* most recent stored entry, k being the distance of historyBuf from       *)
(* currentBuf.  Only the arrow-up that leaves the newest slot writes the   *)
(* scratch buffer, and it saves the text in progress; the later ones leave *)
(* the scratch buffer alone.  Checked under Spec.  The code does not       *)
(* satisfy it: what is saved is the C string in the slot, which after a    *)
(* backspace is longer than the text in progress (see C1).                 *)
(***************************************************************************)
RefOlder(i) == (i + CONFIG_SHELL_COMMAND_HISTORY - 1) % CONFIG_SHELL_COMMAND_HISTORY

RefStepsBack(h, c) ==
  (c - h + CONFIG_SHELL_COMMAND_HISTORY) % CONFIG_SHELL_COMMAND_HISTORY

\* What arrow-up does apart from saving the text in progress.
ArrowUpMoves ==
  /\ historyBuf' = RefOlder(historyBuf)
  /\ CStr(shellbuf'[currentBuf]) = CStr(shellbuf[historyBuf'])
  /\ count' = Len(CStr(shellbuf[historyBuf']))
  /\ Visible' = RingEntries[HistoryLen - RefStepsBack(historyBuf', currentBuf) + 1]
  /\ \A s \in Slots : s # currentBuf => shellbuf'[s] = shellbuf[s]
  /\ UNCHANGED <<currentBuf, oldestBuf, bufferWrapped>>
  /\ historyBuf # currentBuf => scratchpad' = scratchpad

C22_ArrowUpSavesSlot ==
  [][CsiKey(SHELL_VT100_ARROWUP) /\ historyBuf # oldestBuf =>
       /\ ArrowUpMoves
       /\ historyBuf = currentBuf =>
            CStr(scratchpad') = IF count > 0 THEN CStr(shellbuf[currentBuf]) ELSE <<>>]_vars

(***************************************************************************)
(* C23.  After every completed line (carriage return in Normal mode),      *)
(* empty or not, committed or skipped, historyBuf equals currentBuf and    *)
(* count is 0, so the next arrow-up recalls the most recently stored       *)
(* entry, wherever the navigation stood before.  Checked under Spec.       *)
(***************************************************************************)
C23_CompletionEndsNavigation ==
  /\ [][NormalKey(SHELL_ASCII_CR) => historyBuf' = currentBuf' /\ count' = 0]_vars
  /\ [][CsiKey(SHELL_VT100_ARROWUP) /\ ups = 0 /\ HistoryLen > 0 =>
          /\ Visible' = RingEntries[HistoryLen]
          /\ historyBuf' = RefOlder(currentBuf)]_vars

\* With a full ring, the first arrow-up behind a completed line showed the
\* newest stored entry.
C23_Witness ==
  /\ last.op = "task" /\ last.csi /\ last.rx = SHELL_VT100_ARROWUP
  /\ ups = 1
  /\ HistoryLen = CONFIG_SHELL_COMMAND_HISTORY - 1
  /\ bufferWrapped
  /\ historyBuf = RefOlder(currentBuf)
  /\ count > 0
  /\ Visible = RingEntries[HistoryLen]

(***************************************************************************)
(* C24.  A completed line that is empty, or equal to the most recently     *)
(* stored entry, leaves currentBuf, oldestBuf, bufferWrapped and the       *)
(* stored entries unchanged; any other completed line, found or not,       *)
(* advances currentBuf by one modulo the ring capacity and becomes the     *)
(* newest stored entry.  Checked under Spec.                               *)
(***************************************************************************)
C24_CommitRule ==
  [][NormalKey(SHELL_ASCII_CR) =>
       IF Visible = <<>> \/ (HistoryLen > 0 /\ Visible = RingEntries[HistoryLen])
       THEN /\ UNCHANGED <<currentBuf, oldestBuf, bufferWrapped>>
            /\ RingEntries' = RingEntries
       ELSE /\ currentBuf' = (currentBuf + 1) % CONFIG_SHELL_COMMAND_HISTORY
            /\ HistoryLen' > 0
            /\ RingEntries'[HistoryLen'] = Visible
            /\ \A k \in 1 .. (HistoryLen' - 1) :
                 RingEntries'[k] = RingEntries[k + HistoryLen + 1 - HistoryLen']]_vars

\* A line that is no command was completed in the last slot of the ring: it
\* was reported, stored, and currentBuf wrapped to slot 0.
C24_Witness ==
  /\ last.op = "task" /\ last.rx = SHELL_ASCII_CR /\ ~last.esc
  /\ Occurrences(out, NotFoundText) = 1
  /\ currentBuf = 0
  /\ bufferWrapped
  /\ RingEntries[HistoryLen] = <<CHAR_a, CHAR_a>>

(***************************************************************************)
(* C25.  A stored history entry holds the raw text of the line as it was   *)
(* submitted, quotes and backslashes intact, whatever tokenization         *)
(* and escape resolution do, and it is not modified while it is stored:    *)
(* every call of shell_task changes only the current slot and the scratch  *)
(* buffer.  Checked under SpecRaw.                                         *)
(***************************************************************************)
C25_StoredEntriesAreRaw ==
  /\ [](RingEntries = committed)
  /\ [][last'.op = "task" =>
          \A s \in Slots : s # currentBuf => shellbuf'[s] = shellbuf[s]]_vars
  /\ [][last'.op = "task" /\ ~NormalKey(SHELL_ASCII_CR) =>
          RingEntries' = RingEntries]_vars

\* The line backslash-quote was stored as typed, although the escape pass
\* left only the quote in the scratch buffer; it was then recalled and the
\* recalled text was edited with backspace.
C25_Witness ==
  /\ HistoryLen = 1
  /\ RingEntries[1] = <<CHAR_BACKSLASH, CHAR_QUOTE>>
  /\ historyBuf # currentBuf
  /\ count = 1
  /\ last.op = "task" /\ last.rx = SHELL_ASCII_BS
  /\ Visible = <<CHAR_BACKSLASH>>

(***************************************************************************)
(* C26.  The two uses of the scratch buffer do not overlap.  The arrow-up  *)
(* that leaves the newest slot saves the text in progress; while the       *)
(* navigation lasts no call touches the scratch buffer; and the arrow-down *)
(* that comes back to the newest slot puts the saved text on the line, so  *)
(* the restored text is the text that was in progress and never what a     *)
(* tokenized line left behind.  Checked under Spec.  The code does not     *)
(* satisfy it: the saved text is the C string of the slot, which after a   *)
(* backspace is not the text in progress (see C1), and an empty saved text *)
(* is not copied back, so the line becomes the C string left in the slot.  *)
(***************************************************************************)
ScratchKeptWhileNavigating ==
  last'.op = "task" /\ historyBuf # currentBuf /\ historyBuf' # currentBuf'
    => scratchpad' = scratchpad

ReachesNewest ==
  /\ CsiKey(SHELL_VT100_ARROWDOWN)
  /\ historyBuf # currentBuf
  /\ historyBuf' = currentBuf

C26_ScratchUsesDisjoint ==
  /\ [][CsiKey(SHELL_VT100_ARROWUP) /\ historyBuf = currentBuf
          /\ historyBuf # oldestBuf => CStr(scratchpad') = Visible]_vars
  /\ [][ScratchKeptWhileNavigating]_vars
  /\ [][ReachesNewest =>
          /\ scratchpad' = scratchpad
          /\ Visible' = CStr(scratchpad)]_vars

\* What holds: whenever a navigation starts the scratch buffer is written,
\* it is kept while the navigation lasts, and a non-empty scratch buffer is
\* what the arrow-down that comes back puts on the line.
C26_ScratchWrittenAtStart ==
  /\ [][CsiKey(SHELL_VT100_ARROWUP) /\ historyBuf = currentBuf
          /\ historyBuf # oldestBuf =>
          CStr(scratchpad') = IF count > 0 THEN CStr(shellbuf[currentBuf]) ELSE <<>>]_vars
  /\ [][ScratchKeptWhileNavigating]_vars
  /\ [][ReachesNewest =>
          /\ scratchpad' = scratchpad
          /\ CStr(scratchpad) # <<>> => Visible' = CStr(scratchpad)]_vars

(***************************************************************************)
(* C27.  %d with a negative value, any width w and either pad flag prints  *)
(* exactly one minus sign, immediately in front of the digits of the       *)
(* magnitude, and the sign takes one column of the field: the conversion   *)
(* prints max(w, 1 + number of magnitude digits) characters, the pad       *)
(* characters (spaces, or zeros with the flag) coming first.  Checked      *)
(* under SpecFmt.                                                          *)
(***************************************************************************)
RefMax(a, b) == IF a >= b THEN a ELSE b

C27_NegativeDecimal ==
  fres.stage = "done" /\ RefIsConversion(RefCore(ffmt), {CHAR_d})
    /\ fargs[1].int < 0 =>
    LET core == RefCore(ffmt)
        lead == RefLead(ffmt)
        trail == RefTrail(ffmt)
        mag == RefDigits(0 - fargs[1].int, 10, RefLowerDigits)
        total == RefMax(RefWidth(core), 1 + Len(mag))
        fill == IF RefFlag(core) THEN 48 ELSE 32
        body == SubSeq(fres.out, Len(lead) + 1, Len(fres.out) - Len(trail))
    IN /\ Len(fres.out) = Len(lead) + total + Len(trail)
       /\ SubSeq(fres.out, 1, Len(lead)) = lead
       /\ SubSeq(fres.out, Len(fres.out) - Len(trail) + 1, Len(fres.out)) = trail
       /\ Cardinality({k \in 1 .. Len(body) : body[k] = CHAR_MINUS}) = 1
       /\ SubSeq(body, total - Len(mag), total) = <<CHAR_MINUS>> \o mag
       /\ \A k \in 1 .. (total - Len(mag) - 1) : body[k] = fill
       /\ ~fres.aborted

\* "%03d" was rendered with the value -5 and gave "0-5": one pad character,
\* the sign, the digit.
C27_Witness ==
  /\ fres.stage = "done"
  /\ ffmt = <<CHAR_PERCENT, CHAR_ZERO, CHAR_THREE, CHAR_d>>
  /\ fargs[1].int = -5
  /\ fres.out = <<CHAR_ZERO, CHAR_MINUS, 53>>

(***************************************************************************)
(* C28.  In every state of a session the three ring indices are below the  *)
(* ring capacity; while bufferWrapped is false oldestBuf is 0; when it is  *)
(* true oldestBuf is (currentBuf + 1) mod N, and no step of the session    *)
(* makes it false again; historyBuf lies in the cyclic range that starts   *)
(* at oldestBuf and ends at currentBuf.  Checked under Spec.               *)
(***************************************************************************)
RefCyclicOffset(from, to) ==
  (to - from + CONFIG_SHELL_COMMAND_HISTORY) % CONFIG_SHELL_COMMAND_HISTORY

C28_RingIndicesInRange ==
  /\ [](/\ currentBuf \in 0 .. (CONFIG_SHELL_COMMAND_HISTORY - 1)
        /\ historyBuf \in 0 .. (CONFIG_SHELL_COMMAND_HISTORY - 1)
        /\ oldestBuf \in 0 .. (CONFIG_SHELL_COMMAND_HISTORY - 1)
        /\ (~bufferWrapped => oldestBuf = 0)
        /\ (bufferWrapped =>
              oldestBuf = (currentBuf + 1) % CONFIG_SHELL_COMMAND_HISTORY)
        /\ RefCyclicOffset(oldestBuf, historyBuf)
             <= RefCyclicOffset(oldestBuf, currentBuf))
  /\ [][bufferWrapped => bufferWrapped']_vars

\* The ring has wrapped, a line was committed after that, and arrow-up has
\* moved historyBuf one slot back across the start of the array.
C28_Witness ==
  /\ bufferWrapped
  /\ oldestBuf = 2
  /\ currentBuf = 1
  /\ historyBuf = 0
  /\ last.op = "task" /\ last.csi

(***************************************************************************)
(* C29.  At most N - 1 submitted lines can be recalled, N the ring         *)
(* capacity, because one slot is the line being typed.  Once N or more     *)
(* distinct lines in a row were committed (the ring has wrapped), N - 1    *)
(* entries are stored; the first N - 1 arrow-ups in a row from a fresh     *)
(* prompt show the N - 1 most recently committed lines, newest first, and  *)
(* every further arrow-up only alerts and changes nothing on the line.     *)
(* Checked under Spec.                                                     *)
(***************************************************************************)
RefDepth == CONFIG_SHELL_COMMAND_HISTORY - 1

C29_DepthIsCapacityMinusOne ==
  /\ [](bufferWrapped => HistoryLen = RefDepth /\ Len(committed) = RefDepth)
  /\ [](Len(RingEntries) <= RefDepth /\ Len(committed) <= RefDepth)
  /\ [][CsiKey(SHELL_VT100_ARROWUP) /\ ups >= 0 /\ bufferWrapped =>
          IF ups < RefDepth
          THEN /\ Visible' = committed[RefDepth - ups]
               /\ out' # <<SHELL_ASCII_BEL>>
               /\ historyBuf' # currentBuf
          ELSE /\ out' = <<SHELL_ASCII_BEL>>
               /\ Visible' = Visible
               /\ historyBuf' = historyBuf
               /\ historyBuf = oldestBuf]_vars

\* More than N lines were committed, then arrow-up was pressed N times from
\* the fresh prompt: the last press alerted and the oldest stored line, the
\* N-1-th most recent, stays on display.
C29_Witness ==
  /\ bufferWrapped
  /\ currentBuf = 1
  /\ ups = CONFIG_SHELL_COMMAND_HISTORY
  /\ historyBuf = oldestBuf
  /\ out = <<SHELL_ASCII_BEL>>
  /\ Len(committed) = RefDepth
  /\ Visible = committed[1]
  /\ Visible # committed[RefDepth]

(***************************************************************************)
(* C30.  shell_parse stores argument pointers only at the indices          *)
(* 0 .. maxargs - 1 of the argument vector, whatever the line, lines with  *)
(* maxargs or more spaces outside quoted spans included.  Checked under    *)
(* SpecParse.  The code does not satisfy it: the space that raises argc to *)
(* maxargs stores the start of the next token at argv[maxargs] before the  *)
(* loop test ends the scan.                                                *)
(***************************************************************************)
C30_ArgvStoresInBounds ==
  pres.stage \in {"parsed", "escaped"} => ~pres.oob

\* What the code does: a store behind the vector happens exactly on the lines
\* that reach the argument limit at a space, and then the count is maxargs.
C30_StoreBehindVectorAtLimit ==
  pres.stage = "parsed" =>
    /\ pres.oob => pres.argc = pmax
    /\ pres.oob <=>
         \E i \in 0 .. (ArrLen(pbuf) - 1) :
           /\ pres.buf[i] = SHELL_ASCII_NUL /\ pbuf[i] = SHELL_ASCII_SP
           /\ Cardinality({j \in 0 .. i :
                 pres.buf[j] = SHELL_ASCII_NUL /\ pbuf[j] = SHELL_ASCII_SP}) = pmax

(***************************************************************************)
(* C31.  A byte received in EscapeSeen or in Csi is never appended to the  *)
(* line, never echoed and never submits the line, a printable byte and a   *)
(* carriage return included: no handler is called, no prompt is printed,   *)
(* the ring and its indices stay, and unless the byte is the final byte of *)
(* an arrow sequence the line and the output are untouched.  In Csi a byte *)
(* outside 0x20-0x7E (CR, ESC, DEL) changes nothing and the machine stays  *)
(* in Csi.  Checked under Spec.                                            *)
(***************************************************************************)
RefArrowFinal(rxchar) ==
  rxchar \in {SHELL_VT100_ARROWUP, SHELL_VT100_ARROWDOWN}

C31_EscapeBytesNeverReachLine ==
  [][last'.op = "task" /\ (InEscapeSeen \/ InCsi) =>
       LET rx == last'.rx
       IN /\ calls' = <<>>
          /\ UNCHANGED <<currentBuf, oldestBuf, bufferWrapped, list>>
          /\ \A s \in Slots : s # currentBuf => shellbuf'[s] = shellbuf[s]
          /\ \A k \in 1 .. Len(out') : out'[k] \notin {SHELL_ASCII_CR, SHELL_ASCII_LF}
          /\ ~(InCsi /\ RefArrowFinal(rx)) =>
               /\ UNCHANGED lineVars
               /\ out' = <<>>
               /\ stores' = {}
          /\ InCsi /\ (rx < 32 \/ rx > 126) =>
               /\ InCsi'
               /\ UNCHANGED progVars]_vars

\* While a line was being typed, ESC [ and then a carriage return arrived:
\* the line is as it was, nothing was printed, the machine is still in Csi.
C31_Witness ==
  /\ last.op = "task" /\ last.esc /\ last.csi /\ last.rx = SHELL_ASCII_CR
  /\ InCsi
  /\ count > 0
  /\ out = <<>>
  /\ calls = <<>>

(***************************************************************************)
(* The history-less variant of the shell (src/unnamed/part_000).  Its line *)
(* buffer is the one array shellbuf[CONFIG_SHELL_MAX_INPUT], held in the   *)
(* variable shellbuf as a char array; count is the static counter of its   *)
(* shell_task.  It has no ring, no scratch buffer and no escape modes: the *)
(* variables of those keep their initial values.                           *)
(***************************************************************************)
\* Bytes received by the variant: a letter, a space, a byte that is neither
\* printable nor handled, and the bytes its switch names.
VariantKeys == {CHAR_a, SHELL_ASCII_SP, CHAR_SOH}

\* One iteration of the for loop of the variant's shell_parse: its switch
\* has no case for the backslash.
ParseChar_000(s, length) ==
  LET c == s.buf[s.i]
      i == s.i
  IN CASE c = SHELL_ASCII_NUL ->
            [s EXCEPT !.i = length + 1, !.argc = @ + 1]
       [] c = CHAR_QUOTE ->
            IF s.toggle = 0
            THEN [SetArg(s, s.argc, i + 1) EXCEPT
                    !.toggle = 1, !.buf = Wr(s.buf, i, SHELL_ASCII_NUL), !.i = i + 1]
            ELSE [s EXCEPT
                    !.toggle = 0, !.buf = Wr(s.buf, i, SHELL_ASCII_NUL), !.i = i + 1]
       [] c = SHELL_ASCII_SP ->
            IF s.toggle = 0
            THEN [SetArg(s, s.argc + 1, i + 1) EXCEPT
                    !.buf = Wr(s.buf, i, SHELL_ASCII_NUL), !.argc = s.argc + 1,
                    !.i = i + 1]
            ELSE [s EXCEPT !.i = i + 1]
       [] OTHER ->
            [s EXCEPT !.i = i + 1]

RECURSIVE ParseLoop_000(_, _, _)
ParseLoop_000(s, length, maxargs) ==
  IF s.i < length /\ s.argc < maxargs /\ s.i \in DOMAIN s.buf
  THEN ParseLoop_000(ParseChar_000(s, length), length, maxargs)
  ELSE s

shell_parse_000(buf, maxargs) ==
  ParseLoop_000(ParseStart(buf, maxargs), Strlen(buf) + 1, maxargs)

\* A call of the variant's shell_task whose read callback delivered rxchar.
Received_000(rxchar) ==
  /\ initialized
  /\ last' = [op |-> "task", reads |-> 1, rx |-> rxchar, esc |-> FALSE, csi |-> FALSE]
  /\ UNCHANGED <<initialized, list, scratchpad, currentBuf, historyBuf, oldestBuf,
                 bufferWrapped, escapeMode, csiMode, regRet, nav, committed, ups,
                 nlines, pbuf, pmax, pres, fmtVars>>

\* The variant after shell_init and one shell_register.

Init_000 ==
  /\ shellbuf = [i \in Cells |-> SHELL_ASCII_NUL]
  /\ scratchpad = [i \in Cells |-> SHELL_ASCII_NUL]
  /\ currentBuf = 0
  /\ historyBuf = 0
  /\ oldestBuf = 0
  /\ bufferWrapped = FALSE
  /\ count = 0
  /\ escapeMode = FALSE
  /\ csiMode = FALSE
  /\ out = <<>>
  /\ calls = <<>>
  /\ stores = {}
  /\ regRet = -1
  /\ last = [op |-> "init", ret |-> TRUE]
  /\ initialized = TRUE
  /\ nav = NoNav
  /\ committed = <<>>
  /\ ups = 0
  /\ nlines = 0
  /\ InitNoParse
  /\ InitNoFormat
  /\ list = [i \in Entries |->
               IF i = 0
               THEN [shell_program |-> 1, shell_command_string |-> <<CHAR_a>>]
               ELSE EmptyEntry]

\* shell_reader returned 0.
TaskIdle_000 ==
  /\ initialized
  /\ out' = <<>>
  /\ calls' = <<>>
  /\ stores' = {}
  /\ last' = [op |-> "idle", reads |-> 1]
  /\ UNCHANGED <<initialized, progVars, regRet, nav, committed, ups, nlines, pbuf,
                 pmax, pres, fmtVars>>

\* case SHELL_ASCII_ESC: case '[': break;
RecvEscape_000 ==
  /\ \E rxchar \in {SHELL_ASCII_ESC, SHELL_VT100_CSI} : Received_000(rxchar)
  /\ out' = <<>>
  /\ calls' = <<>>
  /\ stores' = {}
  /\ UNCHANGED <<shellbuf, count>>

\* case SHELL_ASCII_DEL: and case SHELL_ASCII_HT:
RecvBell_000 ==
  /\ \E rxchar \in {SHELL_ASCII_DEL, SHELL_ASCII_HT} : Received_000(rxchar)
  /\ out' = ShellPutc(<<>>, SHELL_ASCII_BEL)
  /\ calls' = <<>>
  /\ stores' = {}
  /\ UNCHANGED <<shellbuf, count>>

\* case SHELL_ASCII_BS:
RecvBS_000 ==
  /\ Received_000(SHELL_ASCII_BS)
  /\ IF count > 0
     THEN /\ count' = count - 1
          /\ out' = EraseSeq
     ELSE /\ out' = ShellPutc(<<>>, SHELL_ASCII_BEL)
          /\ UNCHANGED count
  /\ calls' = <<>>
  /\ stores' = {}
  /\ UNCHANGED shellbuf

\* default: if (count < CONFIG_SHELL_MAX_INPUT && rxchar >= 0x20 && rxchar < 0x7F)
ShellDefault_000(rxchar) ==
  /\ Received_000(rxchar)
  /\ IF count < CONFIG_SHELL_MAX_INPUT /\ rxchar >= 32 /\ rxchar < 127
     THEN /\ shellbuf' = Wr(shellbuf, count, rxchar)
          /\ out' = ShellPutc(<<>>, rxchar)
          /\ count' = count + 1
          /\ stores' = {count}
     ELSE /\ out' = <<>>
          /\ stores' = {}
          /\ UNCHANGED <<shellbuf, count>>
  /\ calls' = <<>>

RecvChar_000 == \E rxchar \in VariantKeys : ShellDefault_000(rxchar)

\* The line buffer with the byte behind it, after shellbuf[count] = '\0' was
\* executed with count = CONFIG_SHELL_MAX_INPUT and the store landed there.
WithByteBehind(buf) ==
  [i \in 0 .. CONFIG_SHELL_MAX_INPUT |->
     IF i = CONFIG_SHELL_MAX_INPUT THEN SHELL_ASCII_NUL ELSE buf[i]]

\* case SHELL_ASCII_CR: and the completed line.  With count below the array
\* size the terminator is stored in the array.  With count equal to the array
\* size the store is behind the array, undefined behaviour: the line is then
\* parsed as terminated there and the matching handlers run, or the object
\* hit by the store keeps them from running.
RecvCR_000 ==
  \E sb0 \in {IF count < CONFIG_SHELL_MAX_INPUT
              THEN Wr(shellbuf, count, SHELL_ASCII_NUL)
              ELSE WithByteBehind(shellbuf)} :
  \E p \in {shell_parse_000(sb0, CONFIG_SHELL_MAX_COMMAND_ARGS)} :
  \E args \in {ArgStrings(p.buf, p.argc, p.argv)} :
  \E found \in {Dispatch(list, 0, args, Len(ShellPrint(<<>>, CRLF)), <<>>)} :
  \E run \in (IF count < CONFIG_SHELL_MAX_INPUT THEN {found} ELSE {found, <<>>}) :
    /\ Received_000(SHELL_ASCII_CR)
    /\ shellbuf' = [i \in Cells |-> p.buf[i]]
    /\ stores' = {count}
    /\ calls' = run
    /\ count' = 0
    /\ out' = ShellPrompt(ShellPrint(
                 IF NotFoundNeeded(run = <<>>, count)
                 THEN ShellPrintln(ShellPrint(<<>>, CRLF), NotFoundText)
                 ELSE ShellPrint(<<>>, CRLF),
                 CRLF))

Next_000 ==
  \/ TaskIdle_000
  \/ RecvEscape_000
  \/ RecvBell_000
  \/ RecvBS_000
  \/ RecvChar_000
  \/ RecvCR_000

Spec_000 == Init_000 /\ [][Next_000]_vars

(***************************************************************************)
(* C32.  In the history-less variant count never exceeds                   *)
(* CONFIG_SHELL_MAX_INPUT - 1, and no call of shell_task stores a          *)
(* printable byte or the terminator of a completed line at an index        *)
(* outside 0 .. CONFIG_SHELL_MAX_INPUT - 1 of the line buffer.  Checked    *)
(* under Spec_000.  The code does not satisfy it: the printable case tests *)
(* count < CONFIG_SHELL_MAX_INPUT, so a full line leaves no cell for the   *)
(* terminator and carriage return stores it behind the array.              *)
(***************************************************************************)
C32_VariantBufferBounded ==
  /\ [](count <= CONFIG_SHELL_MAX_INPUT - 1)
  /\ [][stores' \subseteq 0 .. (CONFIG_SHELL_MAX_INPUT - 1)]_vars

\* What the code does: count reaches the array size, printable bytes are
\* stored inside the array, and the terminator is stored at cell count, which
\* is behind the array exactly when the line is full.
C32_VariantTerminatorAtCount ==
  /\ [](count <= CONFIG_SHELL_MAX_INPUT)
  /\ [][last'.op = "task" =>
          IF last'.rx = SHELL_ASCII_CR
          THEN stores' = {count} /\ count' = 0
          ELSE stores' \subseteq 0 .. (CONFIG_SHELL_MAX_INPUT - 1)]_vars

(***************************************************************************)
(* C33.  shell_process_escape never loads a character at an index beyond   *)
(* the terminator of the token it is processing, and so never beyond the   *)
(* end of the buffer, whatever the token, tokens with two or more          *)
(* backslash-quote pairs that end at the last position of the line         *)
(* included.  Checked under SpecParse.  The code does not satisfy it: the  *)
(* loop runs j up to the length the token had before the pass while it     *)
(* loads at j + readindex, so after the second pair it loads behind the    *)
(* terminator.                                                             *)
(***************************************************************************)
\* The cells of token k of the tokenized line, its terminator included.
RefTokenCells(k) ==
  pres.argv[k - 1] .. (pres.argv[k - 1] + Len(CStrAt(pres.buf, pres.argv[k - 1])))

C33_EscapeLoadsInsideToken ==
  [][pres.stage = "parsed" /\ pres'.stage = "escaped" =>
       \A k \in 1 .. pres.argc :
         /\ pres'.loads[k].reads \subseteq RefTokenCells(k)
         /\ pres'.loads[k].reads \subseteq DOMAIN pres.buf]_vars

\* The backslash-quote pairs of token k of the tokenized line.
RefPairs(k) ==
  {c \in RefTokenCells(k) :
     Rd(pres.buf, c) = CHAR_BACKSLASH /\ Rd(pres.buf, c + 1) = CHAR_QUOTE}

\* What the code does: a token with at most one pair is loaded up to its
\* terminator and no further; with p pairs the loads reach at most p - 1
\* cells behind the terminator, one more when the last of them is a backslash.
C33_LoadsReachBehindTerminator ==
  [][pres.stage = "parsed" /\ pres'.stage = "escaped" =>
       \A k \in 1 .. pres.argc :
         LET term == pres.argv[k - 1] + Len(CStrAt(pres.buf, pres.argv[k - 1]))
             p == Cardinality(RefPairs(k))
         IN /\ p <= 1 => pres'.loads[k].reads \subseteq RefTokenCells(k)
            /\ \A c \in pres'.loads[k].reads : c <= term + p]_vars

====
